---- MODULE Spec2Model ----
(***************************************************************************)
(* Contact book REST API: route middleware, controller, service,           *)
(* repository and error handler of the backend, as a state machine over    *)
(* the contacts table and the requests in flight.                          *)
(*                                                                         *)
(* Text is a sequence of one-character strings, so that trimming, length   *)
(* bounds, the e-mail and phone patterns and the keyword search of the     *)
(* error handler are computed on the characters.                           *)
(***************************************************************************)
EXTENDS Integers, Sequences, FiniteSets, TLC

VARIABLES
    contacts,   \* the contacts table: set of rows, at most one per id
    nextId,     \* next value of the SERIAL sequence behind contacts.id
    now,        \* CURRENT_TIMESTAMP of the storage engine
    reqs,       \* per handler slot: the request in flight and the call it awaits
    answer,     \* the request answered by the last step, with its outcome
    deleted,    \* ids for which a DELETE has been answered 204
    nodeEnv,    \* process.env.NODE_ENV
    err,        \* an error handed to errorHandler directly
    res,        \* the response errorHandler wrote for err
    probe,      \* a payload and :id text handed to the validation directly
    verdict,    \* what the validation function applied to probe produced
    form,       \* state of a mounted ContactForm, its API call and onSave calls
    detail,     \* state of a mounted ContactDetail, its API call and navigations
    server      \* the backend process: startup, shutdown and exit

vars == << contacts, nextId, now, reqs, answer, deleted, nodeEnv, err, res,
           probe, verdict, form, detail, server >>

----------------------------------------------------------------------------
(* Bounds of the model                                                     *)

\* ids the SERIAL sequence may hand out before inserts are cut off
MaxId == 2
\* largest value of the storage clock
MaxTime == 1

----------------------------------------------------------------------------
(* Characters and text                                                     *)

Digits == {"0", "1", "2", "3", "4", "5", "6", "7", "8", "9"}

\* characters matched by \s in a JavaScript regular expression
Whitespace == {" ", "\t", "\n"}

DigitValue(c) ==
    CASE c = "0" -> 0 [] c = "1" -> 1 [] c = "2" -> 2 [] c = "3" -> 3
      [] c = "4" -> 4 [] c = "5" -> 5 [] c = "6" -> 6 [] c = "7" -> 7
      [] c = "8" -> 8 [] c = "9" -> 9

DigitChar(d) ==
    CASE d = 0 -> "0" [] d = 1 -> "1" [] d = 2 -> "2" [] d = 3 -> "3"
      [] d = 4 -> "4" [] d = 5 -> "5" [] d = 6 -> "6" [] d = 7 -> "7"
      [] d = 8 -> "8" [] d = 9 -> "9"

UpperToLower ==
    [c \in {"A", "B", "C", "D", "E", "F", "G", "H", "I", "J", "K", "L", "M",
            "N", "O", "P", "Q", "R", "S", "T", "U", "V", "W", "X", "Y", "Z"} |->
        CASE c = "A" -> "a" [] c = "B" -> "b" [] c = "C" -> "c" [] c = "D" -> "d"
          [] c = "E" -> "e" [] c = "F" -> "f" [] c = "G" -> "g" [] c = "H" -> "h"
          [] c = "I" -> "i" [] c = "J" -> "j" [] c = "K" -> "k" [] c = "L" -> "l"
          [] c = "M" -> "m" [] c = "N" -> "n" [] c = "O" -> "o" [] c = "P" -> "p"
          [] c = "Q" -> "q" [] c = "R" -> "r" [] c = "S" -> "s" [] c = "T" -> "t"
          [] c = "U" -> "u" [] c = "V" -> "v" [] c = "W" -> "w" [] c = "X" -> "x"
          [] c = "Y" -> "y" [] c = "Z" -> "z"]

\* String.prototype.toLowerCase
toLowerCase(s) ==
    [i \in 1..Len(s) |-> IF s[i] \in DOMAIN UpperToLower THEN UpperToLower[s[i]] ELSE s[i]]

\* String.prototype.includes
includes(s, part) ==
    \E i \in 1..(Len(s) - Len(part) + 1) : SubSeq(s, i, i + Len(part) - 1) = part

\* String.prototype.trim
trim(s) ==
    LET keep == {i \in 1..Len(s) : s[i] \notin Whitespace}
    IN  IF keep = {} THEN << >>
        ELSE LET first == CHOOSE i \in keep : \A j \in keep : i <= j
                 last  == CHOOSE i \in keep : \A j \in keep : j <= i
             IN  SubSeq(s, first, last)

\* the text made of n copies of the character c
Repeat(c, n) == [i \in 1..n |-> c]

----------------------------------------------------------------------------
(* JavaScript values of a JSON body                                        *)

Undefined == [t |-> "undefined", s |-> << >>, n |-> 0]
Null      == [t |-> "null", s |-> << >>, n |-> 0]
Str(s)    == [t |-> "string", s |-> s, n |-> 0]
Num(n)    == [t |-> "number", s |-> << >>, n |-> n]
Bool(b)   == [t |-> "boolean", s |-> << >>, n |-> IF b THEN 1 ELSE 0]
EmptyObject == [t |-> "object", s |-> << >>, n |-> 0]
EmptyArray  == [t |-> "array", s |-> << >>, n |-> 0]

\* ToBoolean, as used by ! and ||
Truthy(v) ==
    CASE v.t = "undefined" -> FALSE
      [] v.t = "null"      -> FALSE
      [] v.t = "string"    -> Len(v.s) > 0
      [] v.t = "number"    -> v.n # 0
      [] v.t = "boolean"   -> v.n = 1
      [] OTHER             -> TRUE

RECURSIVE NatToText(_)
NatToText(n) ==
    IF n < 10 THEN << DigitChar(n) >>
    ELSE Append(NatToText(n \div 10), DigitChar(n % 10))

\* Number.prototype.toString for an integer
IntToText(n) == IF n < 0 THEN << "-" >> \o NatToText(0 - n) ELSE NatToText(n)

\* ToString, as applied by RegExp.prototype.test to a non-string argument
JsToString(v) ==
    CASE v.t = "string"    -> v.s
      [] v.t = "number"    -> IntToText(v.n)
      [] v.t = "boolean"   -> IF v.n = 1 THEN << "t", "r", "u", "e" >>
                                         ELSE << "f", "a", "l", "s", "e" >>
      [] v.t = "undefined" -> << "u", "n", "d", "e", "f", "i", "n", "e", "d" >>
      [] v.t = "null"      -> << "n", "u", "l", "l" >>
      [] v.t = "array"     -> << >>
      [] OTHER             -> << "[", "o", "b", "j", "e", "c", "t", " ",
                                 "O", "b", "j", "e", "c", "t", "]" >>

\* value.length > limit: a value without a length property compares false
LengthExceeds(v, limit) ==
    CASE v.t = "string" -> Len(v.s) > limit
      [] v.t = "array"  -> v.n > limit
      [] OTHER          -> FALSE

\* the presence test taking the empty string for a value
Provided_emptyCounts(v) == v # Undefined /\ v # Null

\* optional field present: !== undefined && !== null && !== ''
Provided(v) == v # Undefined /\ v # Null /\ v # Str(<< >>)

----------------------------------------------------------------------------
(* Field validators (middleware/validation.js)                             *)

\* /^[^\s@]+@[^\s@]+\.[^\s@]+$/: no whitespace, exactly one "@" with text
\* before it, and a "." after it that has text on both sides
EmailRegexTest(s) ==
    LET ats == {i \in 1..Len(s) : s[i] = "@"}
    IN  /\ \A k \in 1..Len(s) : s[k] \notin Whitespace
        /\ Cardinality(ats) = 1
        /\ \E i \in ats :
              /\ i >= 2
              /\ \E j \in (i + 2)..(Len(s) - 1) : s[j] = "."

isValidEmail(email) == EmailRegexTest(email)

\* /^[\d\s\-\+\(\)]+$/ and at least 10 digits left by replace(/\D/g, '')
isValidPhone(phone) ==
    /\ Len(phone) > 0
    /\ \A i \in 1..Len(phone) : phone[i] \in Digits \cup Whitespace \cup {"-", "+", "(", ")"}
    /\ Cardinality({i \in 1..Len(phone) : phone[i] \in Digits}) >= 10

Violation(f, m) == [field |-> f, message |-> m]

\* violations of a required name field, in the order the middleware tests them
RouteNameViolations(v, f, label) ==
    IF ~Truthy(v) THEN << Violation(f, label \o " is required") >>
    ELSE IF v.t # "string" THEN << Violation(f, label \o " must be a string") >>
    ELSE IF Len(trim(v.s)) = 0 THEN << Violation(f, label \o " cannot be empty") >>
    ELSE IF Len(v.s) > 50 THEN << Violation(f, label \o " must not exceed 50 characters") >>
    ELSE << >>

\* the e-mail rule of the middleware without the format test
RouteEmailViolations_noFormat(v) ==
    IF ~Provided(v) THEN << >>
    ELSE IF v.t # "string" THEN << Violation("email", "Email must be a string") >>
    ELSE << >>

RouteEmailViolations(v) ==
    IF ~Provided(v) THEN << >>
    ELSE IF v.t # "string" THEN << Violation("email", "Email must be a string") >>
    ELSE IF ~isValidEmail(v.s) THEN << Violation("email", "Invalid email format") >>
    ELSE << >>

RoutePhoneViolations(v) ==
    IF ~Provided(v) THEN << >>
    ELSE IF v.t # "string" THEN << Violation("phone", "Phone must be a string") >>
    ELSE IF ~isValidPhone(v.s) THEN << Violation("phone", "Invalid phone format") >>
    ELSE << >>

\* the length rule of the middleware with the bound itself excluded
RouteLengthViolations_exclusive(v, f, label, limit, limitText) ==
    IF ~Provided(v) THEN << >>
    ELSE IF v.t # "string" THEN << Violation(f, label \o " must be a string") >>
    ELSE IF Len(v.s) >= limit
         THEN << Violation(f, label \o " must not exceed " \o limitText \o " characters") >>
    ELSE << >>

RouteLengthViolations(v, f, label, limit, limitText) ==
    IF ~Provided(v) THEN << >>
    ELSE IF v.t # "string" THEN << Violation(f, label \o " must be a string") >>
    ELSE IF Len(v.s) > limit
         THEN << Violation(f, label \o " must not exceed " \o limitText \o " characters") >>
    ELSE << >>

\* a validation that stops at the first violation it finds
validateContact_shortCircuit(body) ==
    LET all == RouteNameViolations(body.firstName, "firstName", "First name")
               \o RouteNameViolations(body.lastName, "lastName", "Last name")
               \o RouteEmailViolations(body.email)
               \o RoutePhoneViolations(body.phone)
               \o RouteLengthViolations(body.company, "company", "Company", 100, "100")
               \o RouteLengthViolations(body.notes, "notes", "Notes", 500, "500")
    IN  IF Len(all) > 1 THEN << all[1] >> ELSE all

\* the errors array validateContact builds from req.body
validateContact(body) ==
    RouteNameViolations(body.firstName, "firstName", "First name")
    \o RouteNameViolations(body.lastName, "lastName", "Last name")
    \o RouteEmailViolations(body.email)
    \o RoutePhoneViolations(body.phone)
    \o RouteLengthViolations(body.company, "company", "Company", 100, "100")
    \o RouteLengthViolations(body.notes, "notes", "Notes", 500, "500")

\* decimal digit texts as numbers of any size: ds without its leading zeros
StripZeros(ds) ==
    LET nonzero == {i \in 1..Len(ds) : ds[i] # "0"}
    IN  IF nonzero = {} THEN << "0" >>
        ELSE SubSeq(ds, CHOOSE i \in nonzero : \A j \in nonzero : i <= j, Len(ds))

\* a < b for digit texts without leading zeros
NumLess(a, b) ==
    \/ Len(a) < Len(b)
    \/ /\ Len(a) = Len(b)
       /\ \E i \in 1..Len(a) :
             /\ \A j \in 1..(i - 1) : a[j] = b[j]
             /\ DigitValue(a[i]) < DigitValue(b[i])

\* ds + 1
RECURSIVE Successor(_)
Successor(ds) ==
    IF Len(ds) = 0 THEN << "1" >>
    ELSE IF ds[Len(ds)] = "9"
         THEN Append(Successor(SubSeq(ds, 1, Len(ds) - 1)), "0")
    ELSE Append(SubSeq(ds, 1, Len(ds) - 1), DigitChar(DigitValue(ds[Len(ds)]) + 1))

\* 2^53 = 9007199254740992: every integer below it is a Number
TwoPow53 ==
    << "9", "0", "0", "7", "1", "9", "9", "2", "5", "4", "7", "4", "0", "9", "9", "2" >>

\* the Number value of the integer m: m itself below 2^53; from 2^53 up to
\* 2^54 (which covers every text of up to 16 digits) the Numbers are the even
\* integers, and an odd m lies halfway between two of them and goes to the
\* one with the even significand, the multiple of 4
ToNumber(m) ==
    LET last    == DigitValue(m[Len(m)])
        lastTwo == 10 * DigitValue(m[Len(m) - 1]) + last
    IN  IF NumLess(m, TwoPow53) \/ last % 2 = 0 THEN m
        ELSE IF lastTwo % 4 = 1
             THEN Append(SubSeq(m, 1, Len(m) - 1), DigitChar(last - 1))
        ELSE Successor(m)

\* parseInt(text, 10): leading whitespace and a sign are skipped and the
\* longest run of digits is read; NaN when there is none. The magnitude is
\* kept as digit text
ParseInt(text) ==
    LET lead   == {i \in 1..Len(text) : \A j \in 1..i : text[j] \in Whitespace}
        start  == Cardinality(lead) + 1
        signed == start <= Len(text) /\ text[start] \in {"+", "-"}
        from   == IF signed THEN start + 1 ELSE start
        run    == {i \in from..Len(text) : \A j \in from..i : text[j] \in Digits}
        upto   == from + Cardinality(run) - 1
    IN  IF run = {} THEN [nan |-> TRUE, negative |-> FALSE, digits |-> << "0" >>]
        ELSE [nan |-> FALSE,
              negative |-> signed /\ text[start] = "-",
              digits |-> ToNumber(StripZeros(SubSeq(text, from, upto)))]

\* the parsed Number as an integer of the model (ids of at most 9 digits)
NumberValue(parsed) ==
    LET ds == parsed.digits
        Value[i \in 0..Len(ds)] == IF i = 0 THEN 0 ELSE 10 * Value[i - 1] + DigitValue(ds[i])
    IN  IF parsed.negative THEN 0 - Value[Len(ds)] ELSE Value[Len(ds)]

\* Number.prototype.toString of a parsed integer: exact below 2^54
NumberToString(parsed) ==
    IF parsed.negative /\ parsed.digits # << "0" >>
    THEN << "-" >> \o parsed.digits
    ELSE parsed.digits

\* TRUE when validateId calls next(); otherwise it answers 400 itself
validateId(id) ==
    LET parsedId == ParseInt(id)
    IN  /\ Len(id) > 0
        /\ ~(\/ parsedId.nan
             \/ parsedId.negative \/ parsedId.digits = << "0" >>
             \/ NumberToString(parsedId) # id)

validateIdMessage(id) ==
    IF Len(id) = 0 THEN "ID parameter is required" ELSE "ID must be a positive integer"

----------------------------------------------------------------------------
(* Business validation of the service (contactService.js)                  *)

\* the name rule without the trim test
ServiceNameViolations_noTrim(v, f, label) ==
    IF ~Truthy(v) \/ v.t # "string" THEN << Violation(f, label \o " is required") >>
    ELSE IF Len(v.s) > 50 THEN << Violation(f, label \o " must not exceed 50 characters") >>
    ELSE << >>

ServiceNameViolations(v, f, label) ==
    IF ~Truthy(v) \/ v.t # "string" THEN << Violation(f, label \o " is required") >>
    ELSE IF Len(trim(v.s)) = 0 THEN << Violation(f, label \o " cannot be empty") >>
    ELSE IF Len(v.s) > 50 THEN << Violation(f, label \o " must not exceed 50 characters") >>
    ELSE << >>

\* the e-mail rule of the service without the length bound
ServiceEmailViolations_noLength(v) ==
    IF ~Provided(v) THEN << >>
    ELSE IF ~EmailRegexTest(JsToString(v)) THEN << Violation("email", "Invalid email format") >>
    ELSE << >>

ServiceEmailViolations(v) ==
    IF ~Provided(v) THEN << >>
    ELSE IF ~EmailRegexTest(JsToString(v)) THEN << Violation("email", "Invalid email format") >>
    ELSE IF LengthExceeds(v, 100)
         THEN << Violation("email", "Email must not exceed 100 characters") >>
    ELSE << >>

ServiceLengthViolations(v, f, label, limit, limitText) ==
    IF Provided(v) /\ LengthExceeds(v, limit)
    THEN << Violation(f, label \o " must not exceed " \o limitText \o " characters") >>
    ELSE << >>

validateContactData(contactData) ==
    ServiceNameViolations(contactData.firstName, "firstName", "First name")
    \o ServiceNameViolations(contactData.lastName, "lastName", "Last name")
    \o ServiceEmailViolations(contactData.email)
    \o ServiceLengthViolations(contactData.phone, "phone", "Phone", 20, "20")
    \o ServiceLengthViolations(contactData.company, "company", "Company", 100, "100")
    \o ServiceLengthViolations(contactData.notes, "notes", "Notes", 500, "500")

----------------------------------------------------------------------------
(* Message texts of the service and the error handler                       *)

\* "Contact not found"
MsgContactNotFound ==
    << "C", "o", "n", "t", "a", "c", "t", " ", "n", "o", "t", " ", "f", "o",
       "u", "n", "d" >>
\* "Validation failed"
MsgValidationFailed ==
    << "V", "a", "l", "i", "d", "a", "t", "i", "o", "n", " ", "f", "a", "i",
       "l", "e", "d" >>
\* "Failed to retrieve contacts"
MsgFailedRetrieveContacts ==
    << "F", "a", "i", "l", "e", "d", " ", "t", "o", " ", "r", "e", "t", "r",
       "i", "e", "v", "e", " ", "c", "o", "n", "t", "a", "c", "t", "s" >>
\* "Failed to retrieve contact"
MsgFailedRetrieveContact ==
    << "F", "a", "i", "l", "e", "d", " ", "t", "o", " ", "r", "e", "t", "r",
       "i", "e", "v", "e", " ", "c", "o", "n", "t", "a", "c", "t" >>
\* "Failed to create contact"
MsgFailedCreate ==
    << "F", "a", "i", "l", "e", "d", " ", "t", "o", " ", "c", "r", "e", "a",
       "t", "e", " ", "c", "o", "n", "t", "a", "c", "t" >>
\* "Failed to update contact"
MsgFailedUpdate ==
    << "F", "a", "i", "l", "e", "d", " ", "t", "o", " ", "u", "p", "d", "a",
       "t", "e", " ", "c", "o", "n", "t", "a", "c", "t" >>
\* "Failed to delete contact"
MsgFailedDelete ==
    << "F", "a", "i", "l", "e", "d", " ", "t", "o", " ", "d", "e", "l", "e",
       "t", "e", " ", "c", "o", "n", "t", "a", "c", "t" >>
\* "Internal server error"
MsgInternal ==
    << "I", "n", "t", "e", "r", "n", "a", "l", " ", "s", "e", "r", "v", "e",
       "r", " ", "e", "r", "r", "o", "r" >>
\* "A record with this information already exists"
MsgUnique ==
    << "A", " ", "r", "e", "c", "o", "r", "d", " ", "w", "i", "t", "h", " ",
       "t", "h", "i", "s", " ", "i", "n", "f", "o", "r", "m", "a", "t", "i",
       "o", "n", " ", "a", "l", "r", "e", "a", "d", "y", " ", "e", "x", "i",
       "s", "t", "s" >>
\* "Referenced record does not exist"
MsgForeignKey ==
    << "R", "e", "f", "e", "r", "e", "n", "c", "e", "d", " ", "r", "e", "c",
       "o", "r", "d", " ", "d", "o", "e", "s", " ", "n", "o", "t", " ", "e",
       "x", "i", "s", "t" >>
\* "Required field is missing"
MsgNotNull ==
    << "R", "e", "q", "u", "i", "r", "e", "d", " ", "f", "i", "e", "l", "d",
       " ", "i", "s", " ", "m", "i", "s", "s", "i", "n", "g" >>
\* "Route not found"
MsgRouteNotFound ==
    << "R", "o", "u", "t", "e", " ", "n", "o", "t", " ", "f", "o", "u", "n",
       "d" >>

\* keywords getStatusCode searches the lower-cased message for
\* "not found"
KwNotFound ==
    << "n", "o", "t", " ", "f", "o", "u", "n", "d" >>
\* "does not exist"
KwDoesNotExist ==
    << "d", "o", "e", "s", " ", "n", "o", "t", " ", "e", "x", "i", "s", "t" >>
\* "validation"
KwValidation ==
    << "v", "a", "l", "i", "d", "a", "t", "i", "o", "n" >>
\* "invalid"
KwInvalid ==
    << "i", "n", "v", "a", "l", "i", "d" >>
\* "required"
KwRequired ==
    << "r", "e", "q", "u", "i", "r", "e", "d" >>
\* "unauthorized"
KwUnauthorized ==
    << "u", "n", "a", "u", "t", "h", "o", "r", "i", "z", "e", "d" >>
\* "authentication"
KwAuthentication ==
    << "a", "u", "t", "h", "e", "n", "t", "i", "c", "a", "t", "i", "o", "n" >>
\* "forbidden"
KwForbidden ==
    << "f", "o", "r", "b", "i", "d", "d", "e", "n" >>
\* "permission"
KwPermission ==
    << "p", "e", "r", "m", "i", "s", "s", "i", "o", "n" >>

\* message texts of storage failures and of errors raised elsewhere
\* "Connection terminated unexpectedly"
PgConnTerminated ==
    << "C", "o", "n", "n", "e", "c", "t", "i", "o", "n", " ", "t", "e", "r",
       "m", "i", "n", "a", "t", "e", "d", " ", "u", "n", "e", "x", "p", "e",
       "c", "t", "e", "d", "l", "y" >>
\* "duplicate key value violates unique constraint"
PgDuplicateKey ==
    << "d", "u", "p", "l", "i", "c", "a", "t", "e", " ", "k", "e", "y", " ",
       "v", "a", "l", "u", "e", " ", "v", "i", "o", "l", "a", "t", "e", "s",
       " ", "u", "n", "i", "q", "u", "e", " ", "c", "o", "n", "s", "t", "r",
       "a", "i", "n", "t" >>
\* "permission denied for table contacts"
PgPermissionDenied ==
    << "p", "e", "r", "m", "i", "s", "s", "i", "o", "n", " ", "d", "e", "n",
       "i", "e", "d", " ", "f", "o", "r", " ", "t", "a", "b", "l", "e", " ",
       "c", "o", "n", "t", "a", "c", "t", "s" >>
\* "password authentication failed for user"
PgAuthFailed ==
    << "p", "a", "s", "s", "w", "o", "r", "d", " ", "a", "u", "t", "h", "e",
       "n", "t", "i", "c", "a", "t", "i", "o", "n", " ", "f", "a", "i", "l",
       "e", "d", " ", "f", "o", "r", " ", "u", "s", "e", "r" >>
\* "invalid input syntax for type integer"
PgInvalidInput ==
    << "i", "n", "v", "a", "l", "i", "d", " ", "i", "n", "p", "u", "t", " ",
       "s", "y", "n", "t", "a", "x", " ", "f", "o", "r", " ", "t", "y", "p",
       "e", " ", "i", "n", "t", "e", "g", "e", "r" >>
\* "relation contacts does not exist"
PgRelationMissing ==
    << "r", "e", "l", "a", "t", "i", "o", "n", " ", "c", "o", "n", "t", "a",
       "c", "t", "s", " ", "d", "o", "e", "s", " ", "n", "o", "t", " ", "e",
       "x", "i", "s", "t" >>
\* "null value in column violates not-null constraint"
PgNotNull ==
    << "n", "u", "l", "l", " ", "v", "a", "l", "u", "e", " ", "i", "n", " ",
       "c", "o", "l", "u", "m", "n", " ", "v", "i", "o", "l", "a", "t", "e",
       "s", " ", "n", "o", "t", "-", "n", "u", "l", "l", " ", "c", "o", "n",
       "s", "t", "r", "a", "i", "n", "t" >>
\* "Test error"
TxtTestError ==
    << "T", "e", "s", "t", " ", "e", "r", "r", "o", "r" >>
\* "ACCESS FORBIDDEN"
TxtForbiddenUpper ==
    << "A", "C", "C", "E", "S", "S", " ", "F", "O", "R", "B", "I", "D", "D",
       "E", "N" >>
\* "Unauthorized request"
TxtUnauthorized ==
    << "U", "n", "a", "u", "t", "h", "o", "r", "i", "z", "e", "d", " ", "r",
       "e", "q", "u", "e", "s", "t" >>
\* "Name is REQUIRED"
TxtFieldRequired ==
    << "N", "a", "m", "e", " ", "i", "s", " ", "R", "E", "Q", "U", "I", "R",
       "E", "D" >>

----------------------------------------------------------------------------
(* Errors and the error handler (middleware/errorHandler.js)               *)

\* an Error object: statusCode and status are 0, code is "" when not set;
\* hasDetails tells whether the details property is set
NewError(message) ==
    [message |-> message, statusCode |-> 0, status |-> 0, code |-> "",
     isOperational |-> FALSE, hasDetails |-> FALSE, details |-> << >>]

\* new AppError(message, statusCode)
AppError(message, statusCode) ==
    [NewError(message) EXCEPT !.statusCode = statusCode, !.isOperational = TRUE]

\* getStatusCode searching the message as written, without lower-casing it
getStatusCode_caseSensitive(e) ==
    LET errorMessage == e.message
    IN  IF e.statusCode # 0 THEN e.statusCode
        ELSE IF e.status # 0 THEN e.status
        ELSE IF includes(errorMessage, KwNotFound) \/ includes(errorMessage, KwDoesNotExist)
             THEN 404
        ELSE IF \/ includes(errorMessage, KwValidation)
                \/ includes(errorMessage, KwInvalid)
                \/ includes(errorMessage, KwRequired)
             THEN 400
        ELSE IF e.code = "23505" THEN 409
        ELSE IF e.code = "23503" THEN 400
        ELSE IF e.code = "23502" THEN 400
        ELSE IF includes(errorMessage, KwUnauthorized) \/ includes(errorMessage, KwAuthentication)
             THEN 401
        ELSE IF includes(errorMessage, KwForbidden) \/ includes(errorMessage, KwPermission)
             THEN 403
        ELSE 500

getStatusCode(e) ==
    LET errorMessage == toLowerCase(e.message)
    IN  IF e.statusCode # 0 THEN e.statusCode
        ELSE IF e.status # 0 THEN e.status
        ELSE IF includes(errorMessage, KwNotFound) \/ includes(errorMessage, KwDoesNotExist)
             THEN 404
        ELSE IF \/ includes(errorMessage, KwValidation)
                \/ includes(errorMessage, KwInvalid)
                \/ includes(errorMessage, KwRequired)
             THEN 400
        ELSE IF e.code = "23505" THEN 409
        ELSE IF e.code = "23503" THEN 400
        ELSE IF e.code = "23502" THEN 400
        ELSE IF includes(errorMessage, KwUnauthorized) \/ includes(errorMessage, KwAuthentication)
             THEN 401
        ELSE IF includes(errorMessage, KwForbidden) \/ includes(errorMessage, KwPermission)
             THEN 403
        ELSE 500

\* sanitizeErrorMessage surfacing the message of every status from 400 up
sanitizeErrorMessage_noUpperBound(e, statusCode) ==
    IF e.isOperational THEN e.message
    ELSE IF e.code = "23505" THEN MsgUnique
    ELSE IF e.code = "23503" THEN MsgForeignKey
    ELSE IF e.code = "23502" THEN MsgNotNull
    ELSE IF statusCode >= 400 THEN e.message
    ELSE MsgInternal

sanitizeErrorMessage(e, statusCode) ==
    IF e.isOperational THEN e.message
    ELSE IF e.code = "23505" THEN MsgUnique
    ELSE IF e.code = "23503" THEN MsgForeignKey
    ELSE IF e.code = "23502" THEN MsgNotNull
    ELSE IF statusCode >= 400 /\ statusCode < 500 THEN e.message
    ELSE MsgInternal

\* errorHandler attaching details whatever the status
errorHandler_detailsAnyStatus(e, env) ==
    LET statusCode == getStatusCode(e)
        message    == sanitizeErrorMessage(e, statusCode)
        withError  == [error |-> message]
        withDetails ==
            IF e.hasDetails
            THEN withError @@ [details |-> e.details]
            ELSE withError
        errorResponse ==
            IF env = "development"
            THEN withDetails @@ [stack |-> "stack", originalMessage |-> e.message]
            ELSE withDetails
    IN  [status |-> statusCode, body |-> errorResponse]

\* the response errorHandler sends: res.status(statusCode).json(errorResponse)
errorHandler(e, env) ==
    LET statusCode == getStatusCode(e)
        message    == sanitizeErrorMessage(e, statusCode)
        withError  == [error |-> message]
        withDetails ==
            IF e.hasDetails /\ statusCode = 400
            THEN withError @@ [details |-> e.details]
            ELSE withError
        errorResponse ==
            IF env = "development"
            THEN withDetails @@ [stack |-> "stack", originalMessage |-> e.message]
            ELSE withDetails
    IN  [status |-> statusCode, body |-> errorResponse]

\* notFoundHandler answers a request no route matched
notFoundHandler(path) ==
    [status |-> 404, body |-> [error |-> MsgRouteNotFound, path |-> path]]

----------------------------------------------------------------------------
(* The contacts table and the repository (contactRepository.js, init.sql)  *)

\* the conversion turning only an absent value into null
OrNull_keepEmpty(v) == IF v = Undefined THEN Null ELSE v

\* contact.email || null, and likewise for the other optional columns
OrNull(v) == IF Truthy(v) THEN v ELSE Null

mapRowToContact(row) ==
    [id |-> row.id, firstName |-> row.first_name, lastName |-> row.last_name,
     email |-> row.email, phone |-> row.phone, company |-> row.company,
     notes |-> row.notes, createdAt |-> row.created_at, updatedAt |-> row.updated_at]

\* code-point order of the characters that occur in stored names
Alphabet ==
    << " ", "A", "D", "J", "S", "a", "c", "d", "e", "h", "i", "m", "n", "o", "t", "x" >>

CharRank(c) ==
    IF \E i \in 1..Len(Alphabet) : Alphabet[i] = c
    THEN CHOOSE i \in 1..Len(Alphabet) : Alphabet[i] = c
    ELSE Len(Alphabet) + 1

\* s sorts strictly before t
TextLess(s, t) ==
    \E i \in 1..(Len(t)) :
        /\ \A j \in 1..(i - 1) : j <= Len(s) /\ s[j] = t[j]
        /\ \/ Len(s) = i - 1
           \/ Len(s) >= i /\ CharRank(s[i]) < CharRank(t[i])

\* ORDER BY last_name, first_name: a may come before b
RowOrdered(a, b) ==
    \/ TextLess(a.last_name.s, b.last_name.s)
    \/ a.last_name = b.last_name /\ ~TextLess(b.first_name.s, a.first_name.s)

\* the row sequences SELECT ... ORDER BY last_name, first_name may return
OrderedRows(tbl) ==
    {rows \in [1..Cardinality(tbl) -> tbl] :
        /\ \A i, j \in DOMAIN rows : i # j => rows[i] # rows[j]
        /\ \A i, j \in DOMAIN rows : i < j => RowOrdered(rows[i], rows[j])}

\* result.rows of SELECT ... WHERE id = $1
RowsById(tbl, id) == {row \in tbl : row.id = id}

\* a repository call resolved with a value other than null
Resolved(value) ==
    [rejected |-> FALSE, isNull |-> FALSE, value |-> value, error |-> NewError(<< >>)]
\* a repository call resolved with null
ResolvedNull ==
    [rejected |-> FALSE, isNull |-> TRUE, value |-> Null, error |-> NewError(<< >>)]
\* a repository call rejected with the storage error
Rejected(error) ==
    [rejected |-> TRUE, isNull |-> FALSE, value |-> Null, error |-> error]

\* a JavaScript array of contacts
ContactArray(items) == [t |-> "array", items |-> items]

contactRepository_findAll(rows) ==
    Resolved(ContactArray([i \in DOMAIN rows |-> mapRowToContact(rows[i])]))

contactRepository_findById(tbl, id) ==
    IF RowsById(tbl, id) # {}
    THEN Resolved(mapRowToContact(CHOOSE row \in RowsById(tbl, id) : TRUE))
    ELSE ResolvedNull

\* an INSERT that takes no value from the sequence and writes id 1
InsertedRow_fixedId(contact, id, time) ==
    [id |-> 1, first_name |-> contact.firstName, last_name |-> contact.lastName,
     email |-> OrNull(contact.email), phone |-> OrNull(contact.phone),
     company |-> OrNull(contact.company), notes |-> OrNull(contact.notes),
     created_at |-> time, updated_at |-> time]

\* the row INSERT ... RETURNING writes
InsertedRow(contact, id, time) ==
    [id |-> id, first_name |-> contact.firstName, last_name |-> contact.lastName,
     email |-> OrNull(contact.email), phone |-> OrNull(contact.phone),
     company |-> OrNull(contact.company), notes |-> OrNull(contact.notes),
     created_at |-> time, updated_at |-> time]

contactRepository_create(contact, id, time) ==
    Resolved(mapRowToContact(InsertedRow(contact, id, time)))

\* an UPDATE that leaves updated_at as it was
UpdatedRow_noRefresh(old, contact, time) ==
    [old EXCEPT !.first_name = contact.firstName, !.last_name = contact.lastName,
                !.email = OrNull(contact.email), !.phone = OrNull(contact.phone),
                !.company = OrNull(contact.company), !.notes = OrNull(contact.notes)]

\* the row UPDATE ... WHERE id = $7 leaves in place of old
UpdatedRow(old, contact, time) ==
    [old EXCEPT !.first_name = contact.firstName, !.last_name = contact.lastName,
                !.email = OrNull(contact.email), !.phone = OrNull(contact.phone),
                !.company = OrNull(contact.company), !.notes = OrNull(contact.notes),
                !.updated_at = time]

\* the table after an UPDATE without its WHERE clause
TableAfterUpdate_allRows(tbl, id, contact, time) ==
    {UpdatedRow(row, contact, time) : row \in tbl}

\* the table after the UPDATE statement
TableAfterUpdate(tbl, id, contact, time) ==
    {IF row.id = id THEN UpdatedRow(row, contact, time) ELSE row : row \in tbl}

\* an update returning the row as it was before the statement
contactRepository_update_returnsOld(tbl, id, contact, time) ==
    IF RowsById(tbl, id) # {}
    THEN Resolved(mapRowToContact(CHOOSE row \in RowsById(tbl, id) : TRUE))
    ELSE ResolvedNull

contactRepository_update(tbl, id, contact, time) ==
    IF RowsById(tbl, id) # {}
    THEN Resolved(mapRowToContact(
             UpdatedRow(CHOOSE row \in RowsById(tbl, id) : TRUE, contact, time)))
    ELSE ResolvedNull

\* the table after the DELETE statement
TableAfterDelete(tbl, id) == {row \in tbl : row.id # id}

\* result.rowCount > 0
contactRepository_delete(tbl, id) ==
    Resolved(Bool(RowsById(tbl, id) # {}))

----------------------------------------------------------------------------
(* The service (contactService.js)                                         *)

\* how a call into the service stands after running up to its next await
Return(value) == [kind |-> "return", call |-> "", value |-> value, error |-> NewError(<< >>)]
Throw(error)  == [kind |-> "throw", call |-> "", value |-> Null, error |-> error]
Await(call)   == [kind |-> "await", call |-> call, value |-> Null, error |-> NewError(<< >>)]

NotFoundError == [NewError(MsgContactNotFound) EXCEPT !.statusCode = 404]

ValidationError(validationErrors) ==
    [NewError(MsgValidationFailed) EXCEPT
        !.statusCode = 400, !.hasDetails = TRUE, !.details = validationErrors]

(* Each operation below is the service function of that name, resumed at   *)
(* pc: "start" on entry, else the repository call whose promise has just   *)
(* settled with repo.                                                      *)

contactService_findAll(pc, repo) ==
    IF pc = "start" THEN Await("findAll")
    ELSE IF repo.rejected THEN Throw(NewError(MsgFailedRetrieveContacts))
    ELSE Return(repo.value)

\* findById wrapping every error its try block catches, the 404 included
contactService_findById_wrapAll(pc, repo) ==
    IF pc = "start" THEN Await("findById")
    ELSE IF repo.rejected \/ repo.isNull
         THEN Throw(NewError(MsgFailedRetrieveContact))
    ELSE Return(repo.value)

contactService_findById(pc, repo) ==
    IF pc = "start" THEN Await("findById")
    ELSE IF repo.rejected
         THEN IF repo.error.statusCode = 404 THEN Throw(repo.error)
              ELSE Throw(NewError(MsgFailedRetrieveContact))
    ELSE IF repo.isNull THEN Throw(NotFoundError)
    ELSE Return(repo.value)

contactService_create(contactData, pc, repo) ==
    IF pc = "start"
    THEN IF Len(validateContactData(contactData)) > 0
         THEN Throw(ValidationError(validateContactData(contactData)))
         ELSE Await("create")
    ELSE IF repo.rejected THEN Throw(NewError(MsgFailedCreate))
    ELSE Return(repo.value)

\* update validating the payload before it looks the contact up
contactService_update_validateFirst(contactData, pc, repo) ==
    IF pc = "start"
    THEN IF Len(validateContactData(contactData)) > 0
         THEN Throw(ValidationError(validateContactData(contactData)))
         ELSE Await("findById")
    ELSE IF pc = "findById"
    THEN IF repo.rejected THEN Throw(repo.error)
         ELSE IF repo.isNull THEN Throw(NotFoundError)
         ELSE Await("update")
    ELSE IF repo.rejected THEN Throw(NewError(MsgFailedUpdate))
    ELSE Return(repo.value)

contactService_update(contactData, pc, repo) ==
    IF pc = "start" THEN Await("findById")
    ELSE IF pc = "findById"
    THEN IF repo.rejected THEN Throw(repo.error)
         ELSE IF repo.isNull THEN Throw(NotFoundError)
         ELSE IF Len(validateContactData(contactData)) > 0
              THEN Throw(ValidationError(validateContactData(contactData)))
         ELSE Await("update")
    ELSE IF repo.rejected THEN Throw(NewError(MsgFailedUpdate))
    ELSE Return(repo.value)

\* remove deleting without the existence check
contactService_remove_noExistenceCheck(pc, repo) ==
    IF pc = "start" THEN Await("delete")
    ELSE IF repo.rejected THEN Throw(NewError(MsgFailedDelete))
    ELSE Return(Undefined)

contactService_remove(pc, repo) ==
    IF pc = "start" THEN Await("findById")
    ELSE IF pc = "findById"
    THEN IF repo.rejected THEN Throw(repo.error)
         ELSE IF repo.isNull THEN Throw(NotFoundError)
         ELSE Await("delete")
    ELSE IF repo.rejected THEN Throw(NewError(MsgFailedDelete))
    ELSE Return(Undefined)

contactService(op, contactData, pc, repo) ==
    CASE op = "findAll"  -> contactService_findAll(pc, repo)
      [] op = "findById" -> contactService_findById(pc, repo)
      [] op = "create"   -> contactService_create(contactData, pc, repo)
      [] op = "update"   -> contactService_update(contactData, pc, repo)
      [] op = "remove"   -> contactService_remove(pc, repo)

----------------------------------------------------------------------------
(* Router and controller (routes/contacts.js, contactController.js)        *)

Ops == {"findAll", "findById", "create", "update", "remove"}

\* routes with the :id parameter, and routes that take a JSON body
IdRoutes   == {"findById", "update", "remove"}
BodyRoutes == {"create", "update"}

\* the 400 response the validation middleware writes itself
ValidationResponse(errors) ==
    [status |-> 400, body |-> [error |-> MsgValidationFailed, details |-> errors]]

\* response of the controller once the service call has settled
controller(op, outcome, env) ==
    IF outcome.kind = "throw" THEN errorHandler(outcome.error, env)
    ELSE CASE op = "create" -> [status |-> 201, body |-> outcome.value]
           [] op = "remove" -> [status |-> 204, body |-> Undefined]
           [] OTHER         -> [status |-> 200, body |-> outcome.value]

----------------------------------------------------------------------------
(* Inputs                                                                  *)

John  == << "J", "o", "h", "n" >>
Jane  == << "J", "a", "n", "e" >>
Doe   == << "D", "o", "e" >>
Smith == << "S", "m", "i", "t", "h" >>
Acme  == << "A", "c", "m", "e" >>
\* "a@b.co"
EmailGood == << "a", "@", "b", ".", "c", "o" >>
\* "bad"
EmailBad == << "b", "a", "d" >>
\* a well-formed address of 101 characters
EmailLong == Repeat("a", 96) \o << "@", "b", ".", "c", "o" >>
\* "+1-555-123-4567"
PhoneGood ==
    << "+", "1", "-", "5", "5", "5", "-", "1", "2", "3", "-", "4", "5", "6", "7" >>
\* "123"
PhoneShort == << "1", "2", "3" >>
\* "+1 (555) 123-4567 000", well-formed and 21 characters long
PhoneLong ==
    << "+", "1", " ", "(", "5", "5", "5", ")", " ", "1", "2", "3", "-",
       "4", "5", "6", "7", " ", "0", "0", "0" >>

Body(first, last, email, phone, company, notes) ==
    [firstName |-> first, lastName |-> last, email |-> email, phone |-> phone,
     company |-> company, notes |-> notes]

\* body of a request that carries none
NoBody == Body(Undefined, Undefined, Undefined, Undefined, Undefined, Undefined)

\* JSON bodies sent to POST and PUT
HttpBodies ==
    { Body(Str(John), Str(Doe), Str(<< >>), Null, Undefined, Str(<< >>)),
      Body(Str(Jane), Str(Smith), Str(EmailGood), Str(PhoneGood), Str(Acme), Null),
      Body(Undefined, Str(Doe), Undefined, Undefined, Undefined, Undefined),
      Body(Str(Jane), Str(Smith), Str(EmailBad), Undefined, Undefined, Undefined),
      Body(Str(John), Str(<< " ", " " >>), Undefined, Str(PhoneShort), Undefined, Undefined),
      Body(Num(123), Str(Doe), Str(EmailLong), Undefined, Str(Repeat("x", 101)), Undefined),
      Body(Str(Jane), Str(Smith), Undefined, Str(PhoneLong), Undefined, Undefined),
      Body(Str(John), Str(Doe), Str(EmailLong), Undefined, Undefined, Undefined) }

\* contactData handed to the service directly
ServiceBodies ==
    { Body(first, last, email, phone, Undefined, Undefined) :
        first \in {Str(John), Undefined, Null, Str(<< >>), Str(<< " ", " " >>),
                   Num(123), Str(Repeat("x", 51))},
        last  \in {Str(Doe), Undefined, Str(<< >>), Str(<< " ", "\t" >>)},
        email \in {Undefined, Str(EmailBad), Str(EmailGood)},
        phone \in {Undefined, Str(PhoneLong)} }

\* values of the :id path parameter: "1", "2", "01", "abc", "-1", "1.5"
IdTexts ==
    { << "1" >>, << "2" >>, << "0", "1" >>, << "a", "b", "c" >>,
      << "-", "1" >>, << "1", ".", "5" >> }

\* ids handed to the service directly
ServiceIds == 1..(MaxId + 1)

Envs == {"development", "production"}

\* errors the storage driver rejects a statement with
StorageErrors ==
    { [NewError(PgConnTerminated) EXCEPT !.code = ""],
      [NewError(PgDuplicateKey) EXCEPT !.code = "23505"],
      [NewError(PgNotNull) EXCEPT !.code = "23502"],
      [NewError(PgPermissionDenied) EXCEPT !.code = "42501"],
      [NewError(PgAuthFailed) EXCEPT !.code = "28P01"],
      [NewError(PgInvalidInput) EXCEPT !.code = "22P02"],
      [NewError(PgRelationMissing) EXCEPT !.code = "42P01"] }

\* nothing is handed to the validation directly
NoProbe == [body |-> NoBody, idText |-> << >>]

\* no validation function has been applied to probe
NoVerdict ==
    [fn |-> "", next |-> FALSE, errors |-> << >>,
     response |-> [status |-> 0, body |-> Undefined],
     params |-> << >>, result |-> FALSE]

----------------------------------------------------------------------------
(* Initial state of the frontend components and of the server process      *)

\* the six fields of the form and of a contact payload
FormFields == {"firstName", "lastName", "email", "phone", "company", "notes"}

\* no API call is awaited
NoCall == [fn |-> "", id |-> 0, data |-> NoBody]

\* no API call has settled yet
NoSettled ==
    [fn |-> "", rejected |-> FALSE, status |-> 0, message |-> << >>,
     hasDetails |-> FALSE, details |-> << >>, hasId |-> FALSE, id |-> 0]

\* ContactForm after mounting with the prop contactId (0: not given): the
\* useState defaults and, when editing, the effect fetching the contact
MountedForm(contactId) ==
    [contactId |-> contactId,
     formData |-> [f \in FormFields |-> << >>],
     errors |-> [f \in FormFields |-> ""],
     loading |-> FALSE,
     fetchingData |-> contactId # 0,
     submitError |-> << >>,
     call |-> IF contactId # 0 THEN [NoCall EXCEPT !.fn = "getContactById", !.id = contactId]
              ELSE NoCall,
     settled |-> NoSettled,
     submits |-> 0,
     onSave |-> << >>]

\* ContactDetail after mounting on /contacts/1: the useState defaults and
\* the effect fetching the contact
MountedDetail ==
    [id |-> 1,
     hasContact |-> FALSE,
     loading |-> TRUE,
     error |-> << >>,
     showDeleteConfirm |-> FALSE,
     deleting |-> FALSE,
     call |-> "getContactById",
     settled |-> NoSettled,
     deletes |-> 0,
     navigate |-> << >>]

\* the server process once server.js is loaded and startServer awaits
\* initializeDatabase
ProcessStart ==
    [database |-> "connecting",
     server |-> FALSE,
     listening |-> FALSE,
     connections |-> 0,
     shutdowns |-> 0,
     callbacks |-> 0,
     httpClosed |-> FALSE,
     pool |-> "open",
     closing |-> 0,
     timer |-> FALSE,
     elapsed |-> 0,
     exit |-> << >>]

----------------------------------------------------------------------------
(* Requests in flight                                                      *)

Slots == {1, 2}

NoResponse == [status |-> 0, body |-> Undefined]

\* a free handler slot
Idle ==
    [pc |-> "idle", via |-> "", op |-> "", idText |-> << >>, id |-> 0,
     body |-> NoBody, late |-> FALSE, trace |-> << >>]

\* nothing has been answered in the last step
NoAnswer ==
    [slot |-> 0, req |-> Idle, outcome |-> Await(""), response |-> NoResponse]

\* statements a request may be waiting on
Calls == {"findAll", "findById", "create", "update", "delete"}

\* how a repository call settled, as recorded in the trace of its request
ResultKind(repo) ==
    IF repo.rejected THEN "rejected"
    ELSE IF repo.isNull THEN "null"
    ELSE "value"

\* the request r of slot p has run up to out: it either waits for the next
\* repository call or is answered
Proceed(p, r, out) ==
    IF out.kind = "await"
    THEN /\ reqs' = [reqs EXCEPT ![p] = [r EXCEPT !.pc = out.call]]
         /\ answer' = NoAnswer
         /\ deleted' = deleted
    ELSE LET response == IF r.via = "http" THEN controller(r.op, out, nodeEnv)
                         ELSE NoResponse
         IN  /\ reqs' = [reqs EXCEPT ![p] = Idle]
             /\ answer' = [slot |-> p, req |-> [r EXCEPT !.pc = "done"],
                           outcome |-> out, response |-> response]
             /\ deleted' = IF r.op = "remove" /\ response.status = 204
                           THEN deleted \cup {r.id} ELSE deleted

\* the awaited repository call of slot p settles with repo and the service
\* function resumes
Settle(p, repo) ==
    LET r == reqs[p]
        logged == [r EXCEPT !.trace = Append(@, [call |-> r.pc, result |-> ResultKind(repo)])]
    IN  Proceed(p, logged, contactService(r.op, r.body, r.pc, repo))

\* a request the validation middleware answers without calling next()
Refuse(p, r, errors) ==
    /\ reqs' = reqs
    /\ answer' = [slot |-> p, req |-> [r EXCEPT !.pc = "done"],
                  outcome |-> Await(""), response |-> ValidationResponse(errors)]
    /\ deleted' = deleted

\* a request arrives at the router: validateId, validateContact, the
\* controller and the service run up to the first repository call
HttpRequest(p) ==
    /\ answer.slot = 0
    /\ reqs[p].pc = "idle"
    /\ \E op \in Ops :
       \E idText \in IF op \in IdRoutes THEN IdTexts ELSE {<< >>} :
       \E body \in IF op \in BodyRoutes THEN HttpBodies ELSE {NoBody} :
          LET id == NumberValue(ParseInt(idText))
              r  == [pc |-> "start", via |-> "http", op |-> op, idText |-> idText,
                     id |-> id, body |-> body,
                     late |-> op = "remove" /\ validateId(idText) /\ id \in deleted,
                     trace |-> << >>]
          IN  IF op \in IdRoutes /\ ~validateId(idText)
              THEN Refuse(p, r, << Violation("id", validateIdMessage(idText)) >>)
              ELSE IF op \in BodyRoutes /\ Len(validateContact(body)) > 0
              THEN Refuse(p, r, validateContact(body))
              ELSE Proceed(p, r, contactService(op, body, "start", ResolvedNull))
    /\ UNCHANGED << contacts, nextId, now, nodeEnv, form, detail, server, err, res, probe, verdict >>

\* a caller invokes a service function directly, one call at a time
ServiceCall(p) ==
    /\ answer.slot = 0
    /\ \A q \in Slots : reqs[q].pc = "idle"
    /\ \E op \in Ops :
       \E id \in IF op \in IdRoutes THEN ServiceIds ELSE {0} :
       \E body \in IF op \in BodyRoutes THEN ServiceBodies ELSE {NoBody} :
          LET r == [pc |-> "start", via |-> "service", op |-> op, idText |-> << >>,
                    id |-> id, body |-> body, late |-> FALSE, trace |-> << >>]
          IN  Proceed(p, r, contactService(op, body, "start", ResolvedNull))
    /\ UNCHANGED << contacts, nextId, now, nodeEnv, form, detail, server, err, res, probe, verdict >>

\* SELECT ... ORDER BY last_name, first_name
FindAllStmt(p) ==
    /\ answer.slot = 0
    /\ reqs[p].pc = "findAll"
    /\ \E rows \in OrderedRows(contacts) : Settle(p, contactRepository_findAll(rows))
    /\ UNCHANGED << contacts, nextId, now, nodeEnv, form, detail, server, err, res, probe, verdict >>

\* SELECT ... WHERE id = $1
FindByIdStmt(p) ==
    /\ answer.slot = 0
    /\ reqs[p].pc = "findById"
    /\ Settle(p, contactRepository_findById(contacts, reqs[p].id))
    /\ UNCHANGED << contacts, nextId, now, nodeEnv, form, detail, server, err, res, probe, verdict >>

\* INSERT ... RETURNING: the sequence hands out nextId
InsertStmt(p) ==
    /\ answer.slot = 0
    /\ reqs[p].pc = "create"
    /\ nextId <= MaxId
    /\ contacts' = contacts \cup {InsertedRow(reqs[p].body, nextId, now)}
    /\ nextId' = nextId + 1
    /\ Settle(p, contactRepository_create(reqs[p].body, nextId, now))
    /\ UNCHANGED << now, nodeEnv, form, detail, server, err, res, probe, verdict >>

\* UPDATE ... WHERE id = $7 RETURNING
UpdateStmt(p) ==
    /\ answer.slot = 0
    /\ reqs[p].pc = "update"
    /\ contacts' = TableAfterUpdate(contacts, reqs[p].id, reqs[p].body, now)
    /\ Settle(p, contactRepository_update(contacts, reqs[p].id, reqs[p].body, now))
    /\ UNCHANGED << nextId, now, nodeEnv, form, detail, server, err, res, probe, verdict >>

\* DELETE FROM contacts WHERE id = $1
DeleteStmt(p) ==
    /\ answer.slot = 0
    /\ reqs[p].pc = "delete"
    /\ contacts' = TableAfterDelete(contacts, reqs[p].id)
    /\ Settle(p, contactRepository_delete(contacts, reqs[p].id))
    /\ UNCHANGED << nextId, now, nodeEnv, form, detail, server, err, res, probe, verdict >>

\* the awaited statement fails: the table is left as it was, and a failed
\* INSERT may or may not have drawn a value from the sequence
StorageFailure(p) ==
    /\ answer.slot = 0
    /\ reqs[p].pc \in Calls
    /\ \E error \in StorageErrors : Settle(p, Rejected(error))
    /\ \E drawn \in BOOLEAN :
          nextId' = IF drawn /\ reqs[p].pc = "create" /\ nextId <= MaxId
                    THEN nextId + 1 ELSE nextId
    /\ UNCHANGED << contacts, now, nodeEnv, form, detail, server, err, res, probe, verdict >>

\* the answer of the last step has gone out
Deliver ==
    /\ answer.slot # 0
    /\ answer' = NoAnswer
    /\ UNCHANGED << contacts, nextId, now, reqs, deleted, nodeEnv, form, detail, server, err, res, probe, verdict >>

\* time passes
Tick ==
    /\ now < MaxTime
    /\ now' = now + 1
    /\ UNCHANGED << contacts, nextId, reqs, answer, deleted, nodeEnv, form, detail, server, err, res, probe, verdict >>

Init ==
    /\ contacts = {}
    /\ nextId = 1
    /\ now = 0
    /\ reqs = [p \in Slots |-> Idle]
    /\ answer = NoAnswer
    /\ deleted = {}
    /\ nodeEnv \in Envs
    /\ err = NewError(<< >>)
    /\ res = NoResponse
    /\ probe = NoProbe
    /\ verdict = NoVerdict
    /\ form = MountedForm(0)
    /\ detail = MountedDetail
    /\ server = ProcessStart

Storage(p) ==
    \/ FindAllStmt(p)
    \/ FindByIdStmt(p)
    \/ InsertStmt(p)
    \/ UpdateStmt(p)
    \/ DeleteStmt(p)
    \/ StorageFailure(p)

\* the API behind the router
Next ==
    \/ \E p \in Slots : HttpRequest(p)
    \/ \E p \in Slots : Storage(p)
    \/ Deliver

Spec == Init /\ [][Next]_vars

\* the service called directly
NextService ==
    \/ \E p \in Slots : ServiceCall(p)
    \/ \E p \in Slots : Storage(p)
    \/ Deliver

SpecService == Init /\ [][NextService]_vars

\* the API with the storage clock running
NextTimed == Next \/ Tick

SpecTimed == Init /\ [][NextTimed]_vars

----------------------------------------------------------------------------
(* The repository called directly, over a storage that accepts every       *)
(* statement; answer holds the last call and what it returned              *)

\* "Test note"
NotesText == << "T", "e", "s", "t", " ", "n", "o", "t", "e" >>

\* contact objects handed to create and update
RepositoryBodies ==
    { Body(Str(John), Str(Doe), Undefined, Undefined, Undefined, Undefined),
      Body(Str(Jane), Str(Smith), Str(EmailGood), Str(PhoneGood), Str(Acme), Str(NotesText)),
      Body(Str(John), Str(Doe), Str(<< >>), Null, Str(<< >>), Null),
      Body(Str(Jane), Str(Doe), Null, Str(<< >>), Null, Str(<< >>)) }

\* ids handed to findById, update and delete
RepositoryIds == 1..MaxId

\* the call op(id, contact) of the repository settled with repo
RepositoryAnswer(op, id, contact, repo) ==
    [slot |-> 1,
     req |-> [Idle EXCEPT !.pc = "done", !.via = "repository", !.op = op, !.id = id,
                          !.body = contact,
                          !.trace = << [call |-> op, result |-> ResultKind(repo)] >>],
     outcome |-> IF repo.rejected THEN Throw(repo.error) ELSE Return(repo.value),
     response |-> NoResponse]

\* contactRepository.create(contact)
RepositoryCreate ==
    /\ nextId <= MaxId
    /\ \E contact \in RepositoryBodies :
          /\ contacts' = contacts \cup {InsertedRow(contact, nextId, now)}
          /\ answer' = RepositoryAnswer("create", nextId, contact,
                                        contactRepository_create(contact, nextId, now))
    /\ nextId' = nextId + 1
    /\ UNCHANGED << now, reqs, deleted, nodeEnv, form, detail, server, err, res, probe, verdict >>

\* contactRepository.findById(id)
RepositoryFindById ==
    /\ \E id \in RepositoryIds :
          answer' = RepositoryAnswer("findById", id, NoBody,
                                     contactRepository_findById(contacts, id))
    /\ UNCHANGED << contacts, nextId, now, reqs, deleted, nodeEnv, form, detail, server, err, res, probe, verdict >>

\* contactRepository.update(id, contact)
RepositoryUpdate ==
    /\ \E id \in RepositoryIds, contact \in RepositoryBodies :
          /\ contacts' = TableAfterUpdate(contacts, id, contact, now)
          /\ answer' = RepositoryAnswer("update", id, contact,
                                        contactRepository_update(contacts, id, contact, now))
    /\ UNCHANGED << nextId, now, reqs, deleted, nodeEnv, form, detail, server, err, res, probe, verdict >>

\* contactRepository.delete(id)
RepositoryDelete ==
    /\ \E id \in RepositoryIds :
          /\ contacts' = TableAfterDelete(contacts, id)
          /\ answer' = RepositoryAnswer("delete", id, NoBody,
                                        contactRepository_delete(contacts, id))
    /\ UNCHANGED << nextId, now, reqs, deleted, nodeEnv, form, detail, server, err, res, probe, verdict >>

NextRepository ==
    \/ RepositoryCreate
    \/ RepositoryFindById
    \/ RepositoryUpdate
    \/ RepositoryDelete
    \/ Tick

SpecRepository == Init /\ [][NextRepository]_vars

----------------------------------------------------------------------------
(* The validation functions on their own: one of them is applied to probe  *)

\* values that are not strings: 0, 123, false, true, {}, []
NonStrings == {Num(0), Num(123), Bool(FALSE), Bool(TRUE), EmptyObject, EmptyArray}

\* a payload with every field set and valid
ValidBase ==
    Body(Str(John), Str(Doe), Str(EmailGood), Str(PhoneGood), Str(Acme), Str(NotesText))

\* phone texts: "5551234567", "555123456", "(555) 123-4567",
\* "+44 20 1234 5678", "555-123", "abc-def-ghij", "555-123-4567x", "+-() ",
\* "555<tab>123<tab>4567" and "5551234567<newline>"
PhoneTexts ==
    { << "5", "5", "5", "1", "2", "3", "4", "5", "6", "7" >>,
      << "5", "5", "5", "1", "2", "3", "4", "5", "6" >>,
      << "(", "5", "5", "5", ")", " ", "1", "2", "3", "-", "4", "5", "6", "7" >>,
      << "+", "4", "4", " ", "2", "0", " ", "1", "2", "3", "4", " ", "5", "6", "7", "8" >>,
      << "5", "5", "5", "-", "1", "2", "3" >>,
      << "a", "b", "c", "-", "d", "e", "f", "-", "g", "h", "i", "j" >>,
      << "5", "5", "5", "-", "1", "2", "3", "-", "4", "5", "6", "7", "x" >>,
      << "+", "-", "(", ")", " " >>,
      << "5", "5", "5", "\t", "1", "2", "3", "\t", "4", "5", "6", "7" >>,
      << "5", "5", "5", "1", "2", "3", "4", "5", "6", "7", "\n" >> }

\* values tried for each field: around its length bound, blank, absent, of
\* the wrong shape and of the wrong type
ProbeValues(f) ==
    NonStrings \cup {Undefined, Null, Str(<< >>)} \cup
    CASE f \in {"firstName", "lastName"} ->
             {Str(John), Str(<< "x" >>), Str(Repeat("x", 49)), Str(Repeat("x", 50)),
              Str(Repeat("x", 51)), Str(<< " ", "\t" >>), Str(Repeat(" ", 51))}
      [] f = "email" ->
             {Str(EmailGood), Str(EmailBad), Str(EmailLong),
              Str(Repeat("a", 95) \o << "@", "b", ".", "c", "o" >>)}
      [] f = "phone" -> {Str(PhoneGood), Str(PhoneShort), Str(PhoneLong)} \cup
                        {Str(s) : s \in PhoneTexts}
      [] f = "company" ->
             {Str(Acme), Str(Repeat("x", 99)), Str(Repeat("x", 100)), Str(Repeat("x", 101))}
      [] f = "notes" ->
             {Str(NotesText), Str(Repeat("x", 499)), Str(Repeat("x", 500)),
              Str(Repeat("x", 501))}

\* payloads handed to the validation: one field of a valid payload replaced,
\* payloads with several fields in violation at once, and the payloads of
\* the repository
ProbeBodies ==
    { [ValidBase EXCEPT ![f] = v] :
        f \in {"firstName", "lastName", "email", "phone", "company", "notes"},
        v \in UNION {ProbeValues(g) : g \in {"firstName", "lastName", "email",
                                             "phone", "company", "notes"}} }
    \cup
    { Body(first, last, email, phone, company, notes) :
        first   \in {Str(John), Undefined, Num(0)},
        last    \in {Str(Doe), Str(<< " ", "\t" >>)},
        email   \in {Null, Str(EmailBad), Bool(TRUE)},
        phone   \in {Str(PhoneGood), Str(PhoneShort)},
        company \in {Str(<< >>), Str(Repeat("x", 101))},
        notes   \in {Undefined, Str(Repeat("x", 501))} }
    \cup RepositoryBodies

\* :id texts handed to validateId: "1", "2", "10", "42", "01", "007", "0",
\* "-1", "+1", "1.5", "1e3", "abc", "12abc", " 1", "1 ", "", 2^31,
\* 2^53 - 1, 2^53, 2^53 + 1 and 2^53 + 3
ProbeIds ==
    { << "1" >>, << "2" >>, << "1", "0" >>, << "4", "2" >>, << "0", "1" >>,
      << "0", "0", "7" >>, << "0" >>, << "-", "1" >>, << "+", "1" >>,
      << "1", ".", "5" >>, << "1", "e", "3" >>, << "a", "b", "c" >>,
      << "1", "2", "a", "b", "c" >>, << " ", "1" >>, << "1", " " >>, << >>,
      << "2", "1", "4", "7", "4", "8", "3", "6", "4", "8" >>,
      << "9", "0", "0", "7", "1", "9", "9", "2", "5", "4", "7", "4", "0", "9", "9", "1" >>,
      TwoPow53,
      << "9", "0", "0", "7", "1", "9", "9", "2", "5", "4", "7", "4", "0", "9", "9", "3" >>,
      << "9", "0", "0", "7", "1", "9", "9", "2", "5", "4", "7", "4", "0", "9", "9", "5" >> }

\* the parameter array create and update bind to their statement
StatementParams(contact) ==
    << contact.firstName, contact.lastName, OrNull(contact.email),
       OrNull(contact.phone), OrNull(contact.company), OrNull(contact.notes) >>

InitValidate ==
    /\ contacts = {}
    /\ nextId = 1
    /\ now = 0
    /\ reqs = [p \in Slots |-> Idle]
    /\ answer = NoAnswer
    /\ deleted = {}
    /\ nodeEnv \in {"production"}
    /\ err = NewError(<< >>)
    /\ res = NoResponse
    /\ probe \in {[body |-> body, idText |-> << "1" >>] : body \in ProbeBodies}
                 \cup {[body |-> ValidBase, idText |-> idText] : idText \in ProbeIds}
    /\ verdict = NoVerdict
    /\ form = MountedForm(0)
    /\ detail = MountedDetail
    /\ server = ProcessStart

\* what a validation middleware leaves: next() called, or the 400 response
MiddlewareVerdict(fn, errors) ==
    [fn |-> fn, next |-> Len(errors) = 0, errors |-> errors,
     response |-> IF Len(errors) = 0 THEN NoResponse ELSE ValidationResponse(errors),
     params |-> << >>, result |-> FALSE]

\* validateId(req, res, next)
ApplyValidateId ==
    /\ verdict.fn = ""
    /\ verdict' = MiddlewareVerdict("validateId",
                      IF validateId(probe.idText) THEN << >>
                      ELSE << Violation("id", validateIdMessage(probe.idText)) >>)
    /\ UNCHANGED << contacts, nextId, now, reqs, answer, deleted, nodeEnv, form, detail, server, err, res, probe >>

\* validateContact(req, res, next)
ApplyValidateContact ==
    /\ verdict.fn = ""
    /\ verdict' = MiddlewareVerdict("validateContact", validateContact(probe.body))
    /\ UNCHANGED << contacts, nextId, now, reqs, answer, deleted, nodeEnv, form, detail, server, err, res, probe >>

\* validateContactData(contactData) of the service
ApplyValidateContactData ==
    /\ verdict.fn = ""
    /\ verdict' = [NoVerdict EXCEPT !.fn = "validateContactData",
                                    !.errors = validateContactData(probe.body)]
    /\ UNCHANGED << contacts, nextId, now, reqs, answer, deleted, nodeEnv, form, detail, server, err, res, probe >>

\* const params = [...] of the repository's create and update
BindParams ==
    /\ verdict.fn = ""
    /\ verdict' = [NoVerdict EXCEPT !.fn = "params", !.params = StatementParams(probe.body)]
    /\ UNCHANGED << contacts, nextId, now, reqs, answer, deleted, nodeEnv, form, detail, server, err, res, probe >>

\* isValidPhone(phone) on a string
ApplyIsValidPhone ==
    /\ verdict.fn = ""
    /\ probe.body.phone.t = "string"
    /\ verdict' = [NoVerdict EXCEPT !.fn = "isValidPhone",
                                    !.result = isValidPhone(probe.body.phone.s)]
    /\ UNCHANGED << contacts, nextId, now, reqs, answer, deleted, nodeEnv, form, detail, server, err, res, probe >>

NextValidate ==
    \/ ApplyValidateId
    \/ ApplyValidateContact
    \/ ApplyValidateContactData
    \/ BindParams
    \/ ApplyIsValidPhone

SpecValidate == InitValidate /\ [][NextValidate]_vars

----------------------------------------------------------------------------
(* The error handler on its own                                            *)

SampleDetails == << Violation("email", "Invalid email format") >>

\* errors next(error) may hand to errorHandler
ErrorInputs ==
    { [message |-> message, statusCode |-> statusCode, status |-> status,
       code |-> code, isOperational |-> isOperational, hasDetails |-> hasDetails,
       details |-> IF hasDetails THEN SampleDetails ELSE << >>] :
        message \in {MsgContactNotFound, MsgValidationFailed, MsgFailedCreate,
                     PgConnTerminated, PgDuplicateKey, PgNotNull, PgPermissionDenied,
                     PgAuthFailed, PgInvalidInput, PgRelationMissing, TxtTestError,
                     TxtForbiddenUpper, TxtUnauthorized, TxtFieldRequired},
        statusCode \in {0, 400, 404, 500, 503},
        status \in {0, 403, 502},
        code \in {"", "23505", "23503", "23502", "42P01"},
        isOperational \in BOOLEAN,
        hasDetails \in BOOLEAN }

InitError ==
    /\ contacts = {}
    /\ nextId = 1
    /\ now = 0
    /\ reqs = [p \in Slots |-> Idle]
    /\ answer = NoAnswer
    /\ deleted = {}
    /\ nodeEnv \in {"development", "production", "test"}
    /\ err \in ErrorInputs
    /\ res = NoResponse
    /\ probe = NoProbe
    /\ verdict = NoVerdict
    /\ form = MountedForm(0)
    /\ detail = MountedDetail
    /\ server = ProcessStart

\* errorHandler(err, req, res, next)
HandleError ==
    /\ res.status = 0
    /\ res' = errorHandler(err, nodeEnv)
    /\ UNCHANGED << contacts, nextId, now, reqs, answer, deleted, nodeEnv, form, detail, server, err,
                   probe, verdict >>

NextError == HandleError

SpecError == InitError /\ [][NextError]_vars

----------------------------------------------------------------------------
(* The API as the frontend reaches it: what the backend may answer to a    *)
(* call, and the API client (config.ts, contactService.ts)                 *)

\* "Network Error", the message of an axios error without a response
TxtNetworkError ==
    << "N", "e", "t", "w", "o", "r", "k", " ", "E", "r", "r", "o", "r" >>

\* "Network error. Please check your connection."
TxtCheckConnection ==
    << "N", "e", "t", "w", "o", "r", "k", " ", "e", "r", "r", "o", "r", ".",
       " ", "P", "l", "e", "a", "s", "e", " ", "c", "h", "e", "c", "k", " ",
       "y", "o", "u", "r", " ", "c", "o", "n", "n", "e", "c", "t", "i", "o",
       "n", "." >>

\* "An error occurred"
TxtAnErrorOccurred ==
    << "A", "n", " ", "e", "r", "r", "o", "r", " ", "o", "c", "c", "u", "r",
       "r", "e", "d" >>

\* "Cannot read properties of null (reading 'id')"
TxtCannotReadId ==
    << "C", "a", "n", "n", "o", "t", " ", "r", "e", "a", "d", " ", "p", "r",
       "o", "p", "e", "r", "t", "i", "e", "s", " ", "o", "f", " ", "n", "u",
       "l", "l", " ", "(", "r", "e", "a", "d", "i", "n", "g", " ", "'", "i",
       "d", "'", ")" >>

\* the row the backend holds for contact id when it holds one
StoredRow(id) == InsertedRow(ValidBase, id, 0)

\* what the repository call of a request for id may settle with, the storage
\* being shared with other clients
RepositoryResults(call, id, payload) ==
    CASE call = "findById" ->
             {Resolved(mapRowToContact(StoredRow(id))), ResolvedNull,
              Rejected(NewError(PgConnTerminated))}
      [] call = "create" ->
             {contactRepository_create(payload, new, 0) : new \in 1..MaxId}
             \cup {Rejected(NewError(PgConnTerminated))}
      [] call = "update" ->
             {contactRepository_update({StoredRow(id)}, id, payload, 1),
              contactRepository_update({}, id, payload, 1),
              Rejected(NewError(PgConnTerminated))}
      [] call = "delete" ->
             {contactRepository_delete({StoredRow(id)}, id),
              contactRepository_delete({}, id),
              Rejected(NewError(PgConnTerminated))}

\* responses of the controller for the service function op resumed at pc
RECURSIVE ServiceAnswers(_, _, _, _, _, _)
ServiceAnswers(op, id, payload, pc, repo, env) ==
    LET out == contactService(op, payload, pc, repo)
    IN  IF out.kind = "await"
        THEN UNION {ServiceAnswers(op, id, payload, out.call, r, env) :
                        r \in RepositoryResults(out.call, id, payload)}
        ELSE {controller(op, out, env)}

\* responses the backend may send to the request op on contact id
BackendAnswers(op, id, payload, env) ==
    IF op \in BodyRoutes /\ Len(validateContact(payload)) > 0
    THEN {ValidationResponse(validateContact(payload))}
    ELSE ServiceAnswers(op, id, payload, "start", ResolvedNull, env)

\* the backend operation behind a function of the frontend's contactService
OperationOf(fn) ==
    CASE fn = "getContactById" -> "findById"
      [] fn = "createContact"  -> "create"
      [] fn = "updateContact"  -> "update"
      [] fn = "deleteContact"  -> "remove"

\* what axios hands to the response interceptor: a response, or an error
\* without one (connection refused or lost, the 10 s timeout)
AxiosOutcomes(fn, id, payload, env) ==
    {[hasResponse |-> TRUE, status |-> r.status, data |-> r.body, message |-> << >>] :
        r \in BackendAnswers(OperationOf(fn), id, payload, env)}
    \cup {[hasResponse |-> FALSE, status |-> 0, data |-> Undefined,
           message |-> TxtNetworkError]}

\* validateStatus of axios: the promise resolves for 2xx
Fulfilled(outcome) == outcome.hasResponse /\ outcome.status >= 200 /\ outcome.status < 300

\* the response property of an error value: an ApiError has none
NoErrorResponse == [has |-> FALSE, status |-> 0, hasDetails |-> FALSE, details |-> << >>]

\* an error value caught by a component
Caught(message, status) ==
    [rejected |-> TRUE, response |-> NoErrorResponse, message |-> message,
     status |-> status, hasDetails |-> FALSE, details |-> << >>]

\* transformError(error): the ApiError the response interceptor rejects with
transformError(error) ==
    IF ~error.hasResponse
    THEN Caught(IF Len(error.message) > 0 THEN error.message ELSE TxtCheckConnection, 0)
    ELSE LET data      == error.data
             fromError == IF "error" \in DOMAIN data /\ Len(data.error) > 0
                          THEN data.error ELSE TxtAnErrorOccurred
             message   == IF "message" \in DOMAIN data /\ Len(data.message) > 0
                          THEN data.message ELSE fromError
         IN  [Caught(message, error.status) EXCEPT
                 !.hasDetails = "details" \in DOMAIN data,
                 !.details = IF "details" \in DOMAIN data THEN data.details ELSE << >>]


----------------------------------------------------------------------------
(* ContactForm (components/ContactForm.tsx)                                *)

\* submissions of one mounted form
MaxSubmits == 2

\* "Failed to load contact data"
TxtFailedToLoad ==
    << "F", "a", "i", "l", "e", "d", " ", "t", "o", " ", "l", "o", "a", "d",
       " ", "c", "o", "n", "t", "a", "c", "t", " ", "d", "a", "t", "a" >>

\* "Failed to save contact"
TxtFailedToSave ==
    << "F", "a", "i", "l", "e", "d", " ", "t", "o", " ", "s", "a", "v", "e",
       " ", "c", "o", "n", "t", "a", "c", "t" >>

\* texts typed into the inputs of the form
FormValues(name) ==
    CASE name = "firstName" -> {<< >>, John, << " ", " " >>, Repeat("x", 51)}
      [] name = "lastName"  -> {<< >>, Doe}
      [] name = "email"     -> {<< >>, EmailGood, EmailBad, EmailLong}
      [] name = "phone"     -> {<< >>, PhoneGood, PhoneShort}
      [] name = "company"   -> {<< >>, Repeat("x", 101)}
      [] name = "notes"     -> {<< >>, Repeat("x", 501)}

\* /^[\d\s()+-]+$/
FormPhoneRegexTest(s) ==
    /\ Len(s) > 0
    /\ \A i \in 1..Len(s) : s[i] \in Digits \cup Whitespace \cup {"(", ")", "+", "-"}

\* newErrors of validateForm, "" for a field without an entry
FormErrors(formData) ==
    [f \in FormFields |->
        CASE f = "firstName" ->
                 IF Len(trim(formData.firstName)) = 0 THEN "First name is required"
                 ELSE IF Len(formData.firstName) > 50
                      THEN "First name must be 50 characters or less"
                 ELSE ""
          [] f = "lastName" ->
                 IF Len(trim(formData.lastName)) = 0 THEN "Last name is required"
                 ELSE IF Len(formData.lastName) > 50
                      THEN "Last name must be 50 characters or less"
                 ELSE ""
          [] f = "email" ->
                 IF /\ Len(formData.email) > 0
                    /\ Len(trim(formData.email)) > 0
                    /\ ~EmailRegexTest(formData.email)
                 THEN "Invalid email format" ELSE ""
          [] f = "phone" ->
                 IF /\ Len(formData.phone) > 0
                    /\ Len(trim(formData.phone)) > 0
                    /\ ~FormPhoneRegexTest(formData.phone)
                 THEN "Invalid phone format" ELSE ""
          [] f = "company" ->
                 IF Len(formData.company) > 100
                 THEN "Company must be 100 characters or less" ELSE ""
          [] f = "notes" ->
                 IF Len(formData.notes) > 500
                 THEN "Notes must be 500 characters or less" ELSE ""]

\* a validateForm that returns true whatever it found
validateForm_alwaysTrue(formData) == TRUE

\* validateForm(): Object.keys(newErrors).length === 0
validateForm(formData) == \A f \in FormFields : FormErrors(formData)[f] = ""

\* value.trim() || undefined
TrimOrUndefined(s) == IF Len(trim(s)) = 0 THEN Undefined ELSE Str(trim(s))

\* the ContactInput handleSubmit builds from the form
ContactData(formData) ==
    Body(Str(trim(formData.firstName)), Str(trim(formData.lastName)),
         TrimOrUndefined(formData.email), TrimOrUndefined(formData.phone),
         TrimOrUndefined(formData.company), TrimOrUndefined(formData.notes))

\* contact.email || '', and likewise for the other optional fields
OrEmpty(v) == IF Truthy(v) THEN v.s ELSE << >>

\* the form filled from the fetched contact
FormDataOf(contact) ==
    [f \in FormFields |->
        IF f \in {"firstName", "lastName"} THEN contact[f].s ELSE OrEmpty(contact[f])]

\* backendErrors: each detail's message under the detail's field
BackendErrors(details) ==
    [f \in FormFields |->
        LET at == {i \in DOMAIN details : details[i].field = f}
        IN  IF at = {} THEN ""
            ELSE details[CHOOSE i \in at : \A j \in at : j <= i].message]

\* what a component records of a settled call
SettledAs(fn, e) ==
    [fn |-> fn, rejected |-> TRUE, status |-> e.status, message |-> e.message,
     hasDetails |-> e.hasDetails, details |-> e.details, hasId |-> FALSE, id |-> 0]

\* a call resolved with a contact
SettledWith(fn, contact) ==
    [NoSettled EXCEPT !.fn = fn, !.hasId = TRUE, !.id = contact.id]

frontendRest == << contacts, nextId, now, reqs, answer, deleted, nodeEnv, err, res,
                  probe, verdict >>

\* handleChange: the user types value into the input name
HandleChange ==
    /\ ~form.fetchingData
    /\ ~form.loading
    /\ \E name \in FormFields : \E value \in FormValues(name) :
          form' = [form EXCEPT
                      !.formData[name] = value,
                      !.errors = IF form.errors[name] # ""
                                 THEN [form.errors EXCEPT ![name] = ""]
                                 ELSE form.errors]
    /\ UNCHANGED << frontendRest, detail, server >>

\* handleSubmit up to its await: validateForm, then the call to the API
HandleSubmit ==
    /\ ~form.fetchingData
    /\ ~form.loading
    /\ form.submits < MaxSubmits
    /\ form' =
          IF ~validateForm(form.formData)
          THEN [form EXCEPT !.submitError = << >>,
                            !.errors = FormErrors(form.formData),
                            !.submits = @ + 1]
          ELSE [form EXCEPT !.submitError = << >>,
                            !.errors = FormErrors(form.formData),
                            !.submits = @ + 1,
                            !.loading = TRUE,
                            !.call = [fn |-> IF form.contactId # 0 THEN "updateContact"
                                             ELSE "createContact",
                                      id |-> form.contactId,
                                      data |-> ContactData(form.formData)]]
    /\ UNCHANGED << frontendRest, detail, server >>

\* the catch block of handleSubmit
SubmitCaught(error) ==
    IF error.response.has /\ error.response.hasDetails
    THEN [form EXCEPT !.loading = FALSE, !.call = NoCall,
                      !.settled = SettledAs(form.call.fn, error),
                      !.errors = BackendErrors(error.response.details)]
    ELSE [form EXCEPT !.loading = FALSE, !.call = NoCall,
                      !.settled = SettledAs(form.call.fn, error),
                      !.submitError = IF Len(error.message) > 0 THEN error.message
                                      ELSE TxtFailedToSave]

\* the call of handleSubmit settles and handleSubmit runs to its end
SubmitSettles ==
    /\ form.call.fn \in {"createContact", "updateContact"}
    /\ \E outcome \in AxiosOutcomes(form.call.fn, form.call.id, form.call.data, nodeEnv) :
          form' =
             IF Fulfilled(outcome)
             THEN IF "id" \in DOMAIN outcome.data
                  THEN [form EXCEPT !.loading = FALSE, !.call = NoCall,
                                    !.settled = SettledWith(form.call.fn, outcome.data),
                                    !.onSave = Append(@, outcome.data.id)]
                  ELSE SubmitCaught(Caught(TxtCannotReadId, 0))
             ELSE SubmitCaught(transformError(outcome))
    /\ UNCHANGED << frontendRest, detail, server >>

\* the getContactById of the effect settles
FetchSettles ==
    /\ form.call.fn = "getContactById"
    /\ \E outcome \in AxiosOutcomes("getContactById", form.call.id, NoBody, nodeEnv) :
          form' =
             IF Fulfilled(outcome)
             THEN [form EXCEPT !.formData = FormDataOf(outcome.data),
                               !.fetchingData = FALSE, !.call = NoCall,
                               !.settled = SettledWith("getContactById", outcome.data)]
             ELSE [form EXCEPT !.submitError = TxtFailedToLoad,
                               !.fetchingData = FALSE, !.call = NoCall,
                               !.settled = SettledAs("getContactById", transformError(outcome))]
    /\ UNCHANGED << frontendRest, detail, server >>

InitForm ==
    /\ contacts = {}
    /\ nextId = 1
    /\ now = 0
    /\ reqs = [p \in Slots |-> Idle]
    /\ answer = NoAnswer
    /\ deleted = {}
    /\ nodeEnv \in {"production"}
    /\ err = NewError(<< >>)
    /\ res = NoResponse
    /\ probe = NoProbe
    /\ verdict = NoVerdict
    /\ form \in {MountedForm(0), MountedForm(1)}
    /\ detail = MountedDetail
    /\ server = ProcessStart

NextForm ==
    \/ HandleChange
    \/ HandleSubmit
    \/ SubmitSettles
    \/ FetchSettles

SpecForm == InitForm /\ [][NextForm]_vars


----------------------------------------------------------------------------
(* ContactDetail (components/ContactDetail.tsx)                            *)

\* delete attempts of one mounted detail view
MaxDeletes == 2

\* "Failed to load contact"
TxtFailedToLoadContact ==
    << "F", "a", "i", "l", "e", "d", " ", "t", "o", " ", "l", "o", "a", "d",
       " ", "c", "o", "n", "t", "a", "c", "t" >>

\* "Failed to delete contact"
TxtFailedToDelete ==
    << "F", "a", "i", "l", "e", "d", " ", "t", "o", " ", "d", "e", "l", "e",
       "t", "e", " ", "c", "o", "n", "t", "a", "c", "t" >>

\* the detail view with its buttons is rendered: the contact is loaded and
\* no navigation has replaced the view
DetailShown == ~detail.loading /\ detail.hasContact /\ detail.navigate = << >>

\* the effect's getContactById settles and fetchContact runs to its end
DetailFetchSettles ==
    /\ detail.call = "getContactById"
    /\ \E outcome \in AxiosOutcomes("getContactById", detail.id, NoBody, nodeEnv) :
          detail' =
             IF Fulfilled(outcome)
             THEN [detail EXCEPT !.hasContact = TRUE, !.loading = FALSE, !.call = "",
                                 !.settled = SettledWith("getContactById", outcome.data)]
             ELSE LET e == transformError(outcome)
                  IN  [detail EXCEPT
                          !.error = IF e.response.has /\ e.response.status = 404
                                    THEN MsgContactNotFound
                                    ELSE IF Len(e.message) > 0 THEN e.message
                                    ELSE TxtFailedToLoadContact,
                          !.loading = FALSE, !.call = "",
                          !.settled = SettledAs("getContactById", e)]
    /\ UNCHANGED << frontendRest, form, server >>

\* the Delete button: setShowDeleteConfirm(true)
OpenDeleteConfirm ==
    /\ DetailShown
    /\ ~detail.deleting
    /\ detail' = [detail EXCEPT !.showDeleteConfirm = TRUE]
    /\ UNCHANGED << frontendRest, form, server >>

\* the Cancel button of the dialog: setShowDeleteConfirm(false)
CancelDelete ==
    /\ DetailShown
    /\ detail.showDeleteConfirm
    /\ ~detail.deleting
    /\ detail' = [detail EXCEPT !.showDeleteConfirm = FALSE]
    /\ UNCHANGED << frontendRest, form, server >>

\* handleDelete bound to the Delete button itself, without the dialog
HandleDelete_noConfirm ==
    /\ DetailShown
    /\ ~detail.deleting
    /\ detail.deletes < MaxDeletes
    /\ detail' = [detail EXCEPT !.deleting = TRUE, !.error = << >>,
                                !.call = "deleteContact", !.deletes = @ + 1]
    /\ UNCHANGED << frontendRest, form, server >>

\* the 'Yes, Delete' button of the dialog: handleDelete up to its await
HandleDelete ==
    /\ DetailShown
    /\ detail.showDeleteConfirm
    /\ ~detail.deleting
    /\ detail.deletes < MaxDeletes
    /\ detail' = [detail EXCEPT !.deleting = TRUE, !.error = << >>,
                                !.call = "deleteContact", !.deletes = @ + 1]
    /\ UNCHANGED << frontendRest, form, server >>

\* deleteContact settles and handleDelete runs to its end
DeleteSettles ==
    /\ detail.call = "deleteContact"
    /\ \E outcome \in AxiosOutcomes("deleteContact", detail.id, NoBody, nodeEnv) :
          detail' =
             IF Fulfilled(outcome)
             THEN [detail EXCEPT !.navigate = Append(@, "/"),
                                 !.deleting = FALSE, !.call = "",
                                 !.settled = [NoSettled EXCEPT !.fn = "deleteContact",
                                                               !.status = outcome.status]]
             ELSE LET e == transformError(outcome)
                  IN  [detail EXCEPT
                          !.error = IF Len(e.message) > 0 THEN e.message
                                    ELSE TxtFailedToDelete,
                          !.showDeleteConfirm = FALSE,
                          !.deleting = FALSE, !.call = "",
                          !.settled = SettledAs("deleteContact", e)]
    /\ UNCHANGED << frontendRest, form, server >>

\* the Edit button (handleEdit) or a 'Back to Contacts' button
NavigateAway ==
    /\ ~detail.loading
    /\ detail.navigate = << >>
    /\ \E to \in IF detail.hasContact THEN {"/", "/contacts/1/edit"} ELSE {"/"} :
          detail' = [detail EXCEPT !.navigate = Append(@, to)]
    /\ UNCHANGED << frontendRest, form, server >>

InitDetail ==
    /\ contacts = {}
    /\ nextId = 1
    /\ now = 0
    /\ reqs = [p \in Slots |-> Idle]
    /\ answer = NoAnswer
    /\ deleted = {}
    /\ nodeEnv \in Envs
    /\ err = NewError(<< >>)
    /\ res = NoResponse
    /\ probe = NoProbe
    /\ verdict = NoVerdict
    /\ form = MountedForm(0)
    /\ detail = MountedDetail
    /\ server = ProcessStart

NextDetail ==
    \/ DetailFetchSettles
    \/ OpenDeleteConfirm
    \/ CancelDelete
    \/ HandleDelete
    \/ DeleteSettles
    \/ NavigateAway

SpecDetail == InitDetail /\ [][NextDetail]_vars


----------------------------------------------------------------------------
(* The server process (server.js, config/database.js)                      *)

\* calls of gracefulShutdown in one run of the process
MaxSignals == 2

\* HTTP connections open at a time
MaxConnections == 1

\* setTimeout(..., 10000) of gracefulShutdown, in seconds
ShutdownTimeout == 10

\* the process has not called process.exit
Alive == server.exit = << >>

\* process.exit(code): nothing of the process runs after it
Exit(code) == [server EXCEPT !.exit = << code >>, !.listening = FALSE]

serverRest == << contacts, nextId, now, reqs, answer, deleted, nodeEnv, err, res,
                probe, verdict, form, detail >>

\* initializeDatabase resolves and startServer calls app.listen
DatabaseInitialized ==
    /\ Alive
    /\ server.database = "connecting"
    /\ server' = [server EXCEPT !.database = "connected", !.server = TRUE,
                                !.listening = TRUE]
    /\ UNCHANGED serverRest

\* a catch block that logs the failure and goes on to listen
DatabaseInitFails_listens ==
    /\ Alive
    /\ server.database = "connecting"
    /\ server' = [server EXCEPT !.database = "failed", !.server = TRUE,
                                !.listening = TRUE]
    /\ UNCHANGED serverRest

\* initializeDatabase throws and the catch block of startServer exits
DatabaseInitFails ==
    /\ Alive
    /\ server.database = "connecting"
    /\ server' = [Exit(1) EXCEPT !.database = "failed"]
    /\ UNCHANGED serverRest

\* a client opens a connection to the listening server
Connect ==
    /\ Alive
    /\ server.listening
    /\ server.connections < MaxConnections
    /\ server' = [server EXCEPT !.connections = @ + 1]
    /\ UNCHANGED serverRest

\* a connection ends
Disconnect ==
    /\ Alive
    /\ server.connections > 0
    /\ server' = [server EXCEPT !.connections = @ - 1]
    /\ UNCHANGED serverRest

\* a gracefulShutdown that calls closeDatabase next to server.close,
\* not in its callback
GracefulShutdown_closesPoolAtOnce ==
    /\ Alive
    /\ server.shutdowns < MaxSignals
    /\ server' =
          IF server.server
          THEN [server EXCEPT !.shutdowns = @ + 1, !.listening = FALSE,
                              !.closing = @ + 1, !.pool = "ending", !.timer = TRUE]
          ELSE [Exit(0) EXCEPT !.shutdowns = @ + 1]
    /\ UNCHANGED serverRest

\* gracefulShutdown(signal), on SIGTERM, SIGINT, an uncaught exception or
\* an unhandled rejection
GracefulShutdown ==
    /\ Alive
    /\ server.shutdowns < MaxSignals
    /\ server' =
          IF server.server
          THEN [server EXCEPT !.shutdowns = @ + 1, !.listening = FALSE,
                              !.callbacks = @ + 1, !.timer = TRUE]
          ELSE [Exit(0) EXCEPT !.shutdowns = @ + 1]
    /\ UNCHANGED serverRest

\* the server has stopped listening and its last connection has ended: the
\* callbacks given to server.close run up to their await closeDatabase()
HttpServerClosed ==
    /\ Alive
    /\ server.callbacks > 0
    /\ server.connections = 0
    /\ server' = [server EXCEPT !.httpClosed = TRUE, !.callbacks = 0,
                                !.closing = @ + server.callbacks,
                                !.pool = "ending"]
    /\ UNCHANGED serverRest

\* closeDatabase resolves: process.exit(0)
DatabaseClosed ==
    /\ Alive
    /\ server.closing > 0
    /\ server' = [Exit(0) EXCEPT !.pool = "ended", !.closing = @ - 1]
    /\ UNCHANGED serverRest

\* closeDatabase rejects: process.exit(1)
DatabaseCloseFails ==
    /\ Alive
    /\ server.closing > 0
    /\ server' = [Exit(1) EXCEPT !.pool = "failed", !.closing = @ - 1]
    /\ UNCHANGED serverRest

\* a second passes while the timer of gracefulShutdown runs
ShutdownTick ==
    /\ Alive
    /\ server.timer
    /\ server.elapsed < ShutdownTimeout
    /\ server' = [server EXCEPT !.elapsed = @ + 1]
    /\ UNCHANGED serverRest

\* the timer of gracefulShutdown fires: process.exit(1)
ForcedShutdown ==
    /\ Alive
    /\ server.timer
    /\ server.elapsed = ShutdownTimeout
    /\ server' = Exit(1)
    /\ UNCHANGED serverRest

\* pool.on('error'): an idle client of the pool fails, process.exit(-1)
PoolError ==
    /\ Alive
    /\ server.database = "connected"
    /\ server.pool \in {"open", "ending"}
    /\ server' = Exit(-1)
    /\ UNCHANGED serverRest

NextServer ==
    \/ DatabaseInitialized
    \/ DatabaseInitFails
    \/ Connect
    \/ Disconnect
    \/ GracefulShutdown
    \/ HttpServerClosed
    \/ DatabaseClosed
    \/ DatabaseCloseFails
    \/ ShutdownTick
    \/ ForcedShutdown
    \/ PoolError

SpecServer == Init /\ [][NextServer]_vars


----------------------------------------------------------------------------
(* Properties of the error handler                                         *)

Handled == res.status # 0

\* the lower-cased message of err contains the keyword
Mentions(keyword) == includes(toLowerCase(err.message), keyword)

ServerError(status) == status >= 500 /\ status <= 599

\* C6 as claimed: every error answered with a 5xx status has the 'error'
\* field 'Internal server error', whatever attributes it carries.
C6_Original_5xxAlwaysGeneric ==
    Handled /\ ServerError(res.status) => res.body.error = MsgInternal

\* C6 as amended: an error answered with a 5xx status that is not marked
\* operational and carries none of the storage codes 23505, 23503, 23502 has
\* the 'error' field 'Internal server error'.
C6_5xxGenericUnlessOperationalOrCoded ==
    Handled /\ ServerError(res.status)
            /\ ~err.isOperational /\ err.code \notin {"23505", "23503", "23502"}
        => res.body.error = MsgInternal

C6_Witness ==
    /\ Handled
    /\ res.status = 500
    /\ err.statusCode = 0 /\ err.status = 0
    /\ err.message = PgConnTerminated
    /\ ~err.isOperational /\ err.code = "42P01"
    /\ res.body.error = MsgInternal

\* C7: the status is assigned by the first matching rule: statusCode or
\* status attribute verbatim; 'not found' / 'does not exist' 404;
\* 'validation' / 'invalid' / 'required' 400; storage code 23505, 23503,
\* 23502 giving 409, 400, 400; 'unauthorized' / 'authentication' 401,
\* 'forbidden' / 'permission' 403; otherwise 500. Message matching ignores case.
C7_StatusByFirstMatchingRule ==
    LET rule1 == err.statusCode # 0 \/ err.status # 0
        rule2 == Mentions(KwNotFound) \/ Mentions(KwDoesNotExist)
        rule3 == Mentions(KwValidation) \/ Mentions(KwInvalid) \/ Mentions(KwRequired)
        rule4 == err.code \in {"23505", "23503", "23502"}
        rule5a == Mentions(KwUnauthorized) \/ Mentions(KwAuthentication)
        rule5b == Mentions(KwForbidden) \/ Mentions(KwPermission)
    IN  Handled =>
          /\ err.statusCode # 0 => res.status = err.statusCode
          /\ err.statusCode = 0 /\ err.status # 0 => res.status = err.status
          /\ ~rule1 /\ rule2 => res.status = 404
          /\ ~rule1 /\ ~rule2 /\ rule3 => res.status = 400
          /\ ~rule1 /\ ~rule2 /\ ~rule3 /\ err.code = "23505" => res.status = 409
          /\ ~rule1 /\ ~rule2 /\ ~rule3 /\ err.code \in {"23503", "23502"} => res.status = 400
          /\ ~rule1 /\ ~rule2 /\ ~rule3 /\ ~rule4 /\ rule5a => res.status = 401
          /\ ~rule1 /\ ~rule2 /\ ~rule3 /\ ~rule4 /\ ~rule5a /\ rule5b => res.status = 403
          /\ ~rule1 /\ ~rule2 /\ ~rule3 /\ ~rule4 /\ ~rule5a /\ ~rule5b => res.status = 500

\* a message matching in upper case only, with a storage code that a later
\* rule would map to 409
C7_Witness ==
    /\ Handled
    /\ err.statusCode = 0 /\ err.status = 0
    /\ err.message = TxtFieldRequired
    /\ err.code = "23505"
    /\ res.status = 400

\* C8: the body has 'error'; 'details' exactly when the error carries
\* details and the status is 400; 'stack' and 'originalMessage' exactly in
\* development mode; and no other key.
C8_BodyKeys ==
    Handled =>
        DOMAIN res.body =
            {"error"}
            \cup (IF err.hasDetails /\ res.status = 400 THEN {"details"} ELSE {})
            \cup (IF nodeEnv = "development" THEN {"stack", "originalMessage"} ELSE {})

\* details carried by an error that is not answered 400 are left out
C8_Witness ==
    /\ Handled
    /\ err.hasDetails
    /\ res.status = 404
    /\ nodeEnv = "development"
    /\ DOMAIN res.body = {"error", "stack", "originalMessage"}

----------------------------------------------------------------------------
(* Properties of the service and of the API                                *)

Answered == answer.slot # 0

\* the repository call was made for request r and has settled
Called(r, call) == \E i \in DOMAIN r.trace : r.trace[i].call = call

\* a repository call of request r was rejected by the storage
Faulted(r) == \E i \in DOMAIN r.trace : r.trace[i].result = "rejected"

\* the existence lookup of request r settled with the result
LookedUp(r, result) ==
    Len(r.trace) > 0 /\ r.trace[1] = [call |-> "findById", result |-> result]

FieldsOf(details) == {details[i].field : i \in DOMAIN details}

\* the value is missing, empty or whitespace-only
NameAbsent(v) ==
    \/ v \in {Undefined, Null}
    \/ v.t = "string" /\ \A i \in 1..Len(v.s) : v.s[i] \in Whitespace

MissingNames(body) == {f \in {"firstName", "lastName"} : NameAbsent(body[f])}

\* a name that is not a string of 1 to 50 characters with a non-blank one
NameRuleBroken(v) == NameAbsent(v) \/ v.t # "string" \/ Len(v.s) > 50

\* fields of the body that break a rule of the route-level validation
RouteBroken(body) ==
    {f \in {"firstName", "lastName"} : NameRuleBroken(body[f])}
    \cup {f \in {"email"} : Provided(body[f]) /\ ~(body[f].t = "string" /\ isValidEmail(body[f].s))}
    \cup {f \in {"phone"} : Provided(body[f]) /\ ~(body[f].t = "string" /\ isValidPhone(body[f].s))}
    \cup {f \in {"company"} : Provided(body[f]) /\ ~(body[f].t = "string" /\ Len(body[f].s) <= 100)}
    \cup {f \in {"notes"} : Provided(body[f]) /\ ~(body[f].t = "string" /\ Len(body[f].s) <= 500)}

\* fields of a body of strings that break a rule of the service validation
ServiceBroken(body) ==
    {f \in {"firstName", "lastName"} : NameRuleBroken(body[f])}
    \cup {f \in {"email"} : Provided(body[f]) /\ ~(isValidEmail(body[f].s) /\ Len(body[f].s) <= 100)}
    \cup {f \in {"phone"} : Provided(body[f]) /\ Len(body[f].s) > 20}
    \cup {f \in {"company"} : Provided(body[f]) /\ Len(body[f].s) > 100}
    \cup {f \in {"notes"} : Provided(body[f]) /\ Len(body[f].s) > 500}

\* the service call threw the validation failure naming at least the fields
ValidationFailure(out, fields) ==
    /\ out.kind = "throw"
    /\ out.error.statusCode = 400
    /\ out.error.message = MsgValidationFailed
    /\ out.error.hasDetails
    /\ fields \subseteq FieldsOf(out.error.details)

\* the response is the 400 'Validation failed' body naming at least the fields
ValidationAnswer(response, fields) ==
    /\ response.status = 400
    /\ response.body.error = MsgValidationFailed
    /\ "details" \in DOMAIN response.body
    /\ fields \subseteq FieldsOf(response.body.details)

\* C1: in update the existence check precedes validation and validation
\* precedes the write: repository.update is invoked only after findById
\* returned a contact and the payload had no violation; for an id that is
\* not stored the outcome is the 404 error whatever the payload, for a stored
\* id with an invalid payload the 400 validation error, and in both cases
\* repository.update is never invoked. (Outcomes are those of calls whose
\* lookup the storage did not fail.)
C1_UpdateChecksThenValidatesThenWrites ==
    /\ \A p \in Slots :
          reqs[p].op = "update" /\ reqs[p].pc = "update" =>
              /\ reqs[p].trace = << [call |-> "findById", result |-> "value"] >>
              /\ ServiceBroken(reqs[p].body) = {}
    /\ Answered /\ answer.req.op = "update" =>
          LET r == answer.req
              stored == RowsById(contacts, r.id) # {}
          IN  /\ Called(r, "update") =>
                    LookedUp(r, "value") /\ ServiceBroken(r.body) = {}
              /\ ~stored => ~Called(r, "update")
              /\ ~stored /\ ~Faulted(r) => answer.outcome = Throw(NotFoundError)
              /\ stored /\ ServiceBroken(r.body) # {} => ~Called(r, "update")
              /\ stored /\ ServiceBroken(r.body) # {} /\ ~Faulted(r) =>
                    ValidationFailure(answer.outcome, {})

\* an invalid payload for an id that is not stored is answered 404
C1_Witness ==
    /\ Answered
    /\ answer.req.op = "update"
    /\ ServiceBroken(answer.req.body) # {}
    /\ RowsById(contacts, answer.req.id) = {}
    /\ answer.req.trace = << [call |-> "findById", result |-> "null"] >>
    /\ answer.outcome = Throw(NotFoundError)

\* C2 as claimed: create and update reject every payload whose firstName or
\* lastName is missing, empty or whitespace-only with the validation failure
\* naming that field, and no repository operation is invoked for it.
C2_Original_NoRepositoryCall ==
    Answered /\ answer.req.op \in {"create", "update"}
             /\ MissingNames(answer.req.body) # {}
        => /\ ValidationFailure(answer.outcome, MissingNames(answer.req.body))
           /\ answer.req.trace = << >>

\* C2 as amended: create rejects such a payload with the validation failure
\* naming the field before any repository call; update first looks the
\* contact up, rejects with the validation failure naming the field when
\* the lookup returned a contact and with 404 when it returned none, and
\* never invokes repository.update; no such payload ever awaits a write.
C2_MissingNameRejectedBeforeWrite ==
    /\ \A p \in Slots :
          reqs[p].pc \in {"create", "update"} => MissingNames(reqs[p].body) = {}
    /\ Answered /\ answer.req.op \in {"create", "update"}
                /\ MissingNames(answer.req.body) # {} =>
          LET r == answer.req
          IN  /\ r.op = "create" =>
                    /\ ValidationFailure(answer.outcome, MissingNames(r.body))
                    /\ r.trace = << >>
              /\ r.op = "update" =>
                    /\ ~Called(r, "update")
                    /\ Len(r.trace) = 1
                    /\ LookedUp(r, "value") =>
                          ValidationFailure(answer.outcome, MissingNames(r.body))
                    /\ LookedUp(r, "null") => answer.outcome = Throw(NotFoundError)

\* update of a stored contact with a whitespace-only lastName
C2_Witness ==
    /\ Answered
    /\ answer.req.op = "update"
    /\ answer.req.body.firstName = Str(John)
    /\ answer.req.body.lastName = Str(<< " ", "\t" >>)
    /\ LookedUp(answer.req, "value")
    /\ ValidationFailure(answer.outcome, {"lastName"})

\* C3: findById, update and remove on an id that is not stored yield the
\* not-found error with status 404 and message 'Contact not found', never a
\* wrapped internal error and never a result: whenever the lookup of such a
\* call settles on a table without the id, the call ends by throwing, and
\* what it throws is the not-found error unless the storage rejected the
\* lookup.
C3_AbsentIdYieldsNotFound ==
    [][\A p \in Slots :
          /\ reqs[p].pc = "findById"
          /\ RowsById(contacts, reqs[p].id) = {}
          /\ reqs'[p] # reqs[p]
          => /\ answer'.slot = p
             /\ answer'.outcome.kind = "throw"
             /\ ~Faulted(answer'.req) => answer'.outcome = Throw(NotFoundError)]_vars

C3_Witness ==
    /\ Answered
    /\ answer.req.op = "findById"
    /\ RowsById(contacts, answer.req.id) = {}
    /\ answer.req.trace = << [call |-> "findById", result |-> "null"] >>
    /\ answer.outcome.error.statusCode = 404
    /\ answer.outcome.error.message = MsgContactNotFound

\* C5: every error that leaves a service operation is the not-found error
\* (404), the validation error (400, with details) or a generic error with
\* one of the five fixed wrapper messages; no raw storage error crosses the
\* service boundary, at whichever repository call the storage fails.
C5_OnlyClassifiedErrorsLeave ==
    Answered /\ answer.outcome.kind = "throw" =>
        \/ answer.outcome.error = NotFoundError
        \/ ValidationFailure(answer.outcome, {})
        \/ answer.outcome.error \in
              { NewError(message) :
                  message \in {MsgFailedRetrieveContacts, MsgFailedRetrieveContact,
                               MsgFailedCreate, MsgFailedUpdate, MsgFailedDelete} }

\* the :id text is the canonical decimal text of a positive integer
WellFormedId(idText) ==
    /\ Len(idText) > 0
    /\ \A i \in 1..Len(idText) : idText[i] \in Digits
    /\ idText[1] # "0"

\* C4: once a DELETE of an id has been answered 204, every DELETE of that id
\* received later is answered 404 and never 204, whatever requests happen in
\* between, and the id is never given to a stored contact again. (404 is
\* the answer of a request whose statements the storage did not fail.)
C4_RepeatedDeleteIs404 ==
    /\ \A row \in contacts : row.id \notin deleted
    /\ Answered /\ answer.req.op = "remove" /\ answer.req.late =>
          /\ answer.response.status # 204
          /\ ~Faulted(answer.req) =>
                /\ answer.response.status = 404
                /\ answer.response.body.error = MsgContactNotFound

\* a second DELETE of id 1 after another contact has been created
C4_Witness ==
    /\ Answered
    /\ answer.req.op = "remove"
    /\ answer.req.late
    /\ answer.req.id = 1
    /\ nextId > 2
    /\ answer.response.status = 404

\* C9: every response of the /api/contacts routes has a status in
\* {200, 201, 204, 400, 404, 500}, for every request and every storage
\* failure at any statement of the request.
C9_DocumentedStatusesOnly ==
    Answered /\ answer.req.via = "http" =>
        answer.response.status \in {200, 201, 204, 400, 404, 500}

\* C10 as claimed: every POST or PUT whose payload violates a validation
\* rule is answered 400 'Validation failed' with a details entry for each
\* violating field, and no such request reaches a write.
C10_Original_InvalidPayloadIs400 ==
    /\ \A p \in Slots :
          reqs[p].pc \in {"create", "update"} =>
              RouteBroken(reqs[p].body) \cup ServiceBroken(reqs[p].body) = {}
    /\ Answered /\ answer.req.op \in {"create", "update"}
                /\ RouteBroken(answer.req.body) \cup ServiceBroken(answer.req.body) # {}
          => ValidationAnswer(answer.response,
                              RouteBroken(answer.req.body) \cup ServiceBroken(answer.req.body))

\* C10 as amended: no POST or PUT whose payload violates a rule reaches a
\* write. A PUT with a malformed id is answered 400 naming only id. Otherwise
\* a payload that violates a route-level rule is answered 400 'Validation
\* failed' with an entry for each field violating a route-level rule; a
\* payload that violates only service-level rules is answered 400 with an
\* entry for each field violating them by POST, and by PUT when the lookup
\* returned the contact, while PUT answers 404 when the lookup returned none.
C10_InvalidPayloadRejected ==
    /\ \A p \in Slots :
          reqs[p].pc \in {"create", "update"} =>
              RouteBroken(reqs[p].body) \cup ServiceBroken(reqs[p].body) = {}
    /\ Answered /\ answer.req.op \in {"create", "update"}
                /\ RouteBroken(answer.req.body) \cup ServiceBroken(answer.req.body) # {} =>
          LET r == answer.req
              idOk == r.op = "create" \/ WellFormedId(r.idText)
          IN  /\ ~Called(r, "create") /\ ~Called(r, "update")
              /\ ~idOk =>
                    /\ ValidationAnswer(answer.response, {"id"})
                    /\ FieldsOf(answer.response.body.details) = {"id"}
              /\ idOk /\ RouteBroken(r.body) # {} =>
                    /\ ValidationAnswer(answer.response, RouteBroken(r.body))
                    /\ r.trace = << >>
              /\ idOk /\ RouteBroken(r.body) = {} /\ r.op = "create" =>
                    ValidationAnswer(answer.response, ServiceBroken(r.body))
              /\ idOk /\ RouteBroken(r.body) = {} /\ r.op = "update" =>
                    /\ LookedUp(r, "value") =>
                          ValidationAnswer(answer.response, ServiceBroken(r.body))
                    /\ LookedUp(r, "null") =>
                          /\ answer.response.status = 404
                          /\ answer.response.body.error = MsgContactNotFound

\* POST {firstName: "Jane", lastName: "Smith", email: "bad"} with a contact
\* already stored: 400 with the email violation, and the table as it was
C10_Witness ==
    /\ Answered
    /\ answer.req.op = "create"
    /\ answer.req.body.email = Str(EmailBad)
    /\ answer.response.status = 400
    /\ answer.response.body.error = MsgValidationFailed
    /\ answer.response.body.details = << Violation("email", "Invalid email format") >>
    /\ Cardinality(contacts) = 1
    /\ nextId = 2

----------------------------------------------------------------------------
(* Properties of the repository                                            *)

OptionalFields == {"email", "phone", "company", "notes"}

\* the value is absent, null or the empty string
Blank(v) == v \in {Undefined, Null, Str(<< >>)}

\* the last repository call was op and returned a contact
Returned(op) ==
    /\ answer.slot # 0
    /\ answer.req.op = op
    /\ answer.req.trace = << [call |-> op, result |-> "value"] >>

\* C11: round trip. When create(payload) is followed by findById on the id
\* create returned, findById returns a contact with that id whose firstName
\* and lastName equal the payload's, whose optional fields equal the
\* payload's with every absent, null or empty-string value returned as null,
\* and whose createdAt and updatedAt are both set and equal (the contact is
\* the one create returned).
C11_CreateThenFindByIdRoundTrip ==
    [][Returned("create") /\ answer'.req.op = "findById"
                          /\ answer'.req.id = answer.outcome.value.id
        => LET payload == answer.req.body
               found   == answer'.outcome.value
           IN  /\ answer'.req.trace = << [call |-> "findById", result |-> "value"] >>
               /\ answer'.outcome.kind = "return"
               /\ found.id = answer.outcome.value.id
               /\ found.firstName = payload.firstName
               /\ found.lastName = payload.lastName
               /\ \A f \in OptionalFields :
                     found[f] = IF Blank(payload[f]) THEN Null ELSE payload[f]
               /\ found.createdAt \in 0..MaxTime
               /\ found.updatedAt = found.createdAt
               /\ found = answer.outcome.value]_vars

\* {firstName: 'John', lastName: 'Doe', email: '', phone: null, company: ''}
\* created after the clock has advanced, then fetched by its id
C11_Witness ==
    /\ Returned("findById")
    /\ answer.req.id = nextId - 1
    /\ answer.outcome.value.firstName = Str(John)
    /\ answer.outcome.value.lastName = Str(Doe)
    /\ \A f \in OptionalFields : answer.outcome.value[f] = Null
    /\ answer.outcome.value.createdAt = 1
    /\ answer.outcome.value.updatedAt = 1
    /\ \E row \in contacts : row.id = answer.req.id /\ row.email = Null

----------------------------------------------------------------------------
(* Properties of the stored contacts                                       *)

\* a stored name: a string of at most 50 characters, not all whitespace
StoredNameOk(v) ==
    /\ v.t = "string"
    /\ Len(v.s) <= 50
    /\ \E i \in 1..Len(v.s) : v.s[i] \notin Whitespace

\* a stored optional column: null, or a string within its rule
StoredOptionalOk(v, ok(_)) == v = Null \/ (v.t = "string" /\ ok(v.s))

EmailRuleOk(s)   == isValidEmail(s) /\ Len(s) <= 100
PhoneRuleOk(s)   == isValidPhone(s)
CompanyRuleOk(s) == Len(s) <= 100
NotesRuleOk(s)   == Len(s) <= 500

IdsOf(tbl) == {row.id : row \in tbl}

\* the statement awaited by slot p executes in this step
Executes(p, call) == reqs[p].pc = call /\ reqs'[p] # reqs[p]

\* C13: the ids of the stored contacts are pairwise distinct; an update
\* never changes the id of the contact it modifies (the set of stored ids is
\* the same after it, and the contact it returns carries the id it was given);
\* every id returned by create is the next value of the sequence, which only
\* grows, so it is larger than every id handed out before, ids of contacts
\* deleted since included.
C13_IdsUniqueAndStable ==
    /\ [](/\ \A r1, r2 \in contacts : r1.id = r2.id => r1 = r2
          /\ \A id \in IdsOf(contacts) \cup deleted : id < nextId)
    /\ [][/\ nextId' >= nextId
          /\ IdsOf(contacts') \subseteq IdsOf(contacts) \cup {nextId}
          /\ \A p \in Slots :
                /\ Executes(p, "update") =>
                      /\ IdsOf(contacts') = IdsOf(contacts)
                      /\ answer'.req.trace[Len(answer'.req.trace)].result = "value" =>
                            /\ answer'.outcome.value.id = reqs[p].id
                            /\ \E row \in contacts' : mapRowToContact(row) = answer'.outcome.value
                /\ Executes(p, "create") /\ contacts' # contacts =>
                      /\ nextId \notin IdsOf(contacts) \cup deleted
                      /\ nextId' = nextId + 1
                      /\ IdsOf(contacts') = IdsOf(contacts) \cup {nextId}
                      /\ answer'.outcome.value.id = nextId]_vars

\* a contact created after the first one was deleted gets a fresh id, and is
\* then updated under that id
C13_Witness ==
    /\ 1 \in deleted
    /\ IdsOf(contacts) = {2}
    /\ Answered
    /\ answer.req.op = "update"
    /\ answer.req.id = 2
    /\ answer.response.status = 200
    /\ answer.response.body.id = 2

\* this step is a call of the repository operation op: every other step of
\* the repository leaves a different operation in answer or moves the clock
RepositoryStep(op) == answer'.slot # 0 /\ answer'.req.op = op /\ now' = now

RowOf(tbl, id) == CHOOSE row \in tbl : row.id = id

\* C14: createdAt is set when the contact is created and no later step
\* changes it; every successful update sets updatedAt to the time of that
\* update; and createdAt <= updatedAt in every reachable state.
C14_CreatedAtFixedUpdatedAtRefreshed ==
    /\ [](\A row \in contacts : row.created_at <= row.updated_at /\ row.updated_at <= now)
    /\ [][/\ \A id \in IdsOf(contacts) \cap IdsOf(contacts') :
                RowOf(contacts', id).created_at = RowOf(contacts, id).created_at
          /\ RepositoryStep("create") /\ nextId' # nextId =>
                /\ RowOf(contacts', nextId).created_at = now
                /\ answer'.outcome.value.createdAt = now
          /\ RepositoryStep("update") /\ answer'.req.id \in IdsOf(contacts) =>
                /\ RowOf(contacts', answer'.req.id).updated_at = now
                /\ answer'.outcome.value.updatedAt = now]_vars

\* a contact created at time 0 and updated at time 1
C14_Witness ==
    /\ Returned("update")
    /\ now = 1
    /\ answer.outcome.value.createdAt = 0
    /\ answer.outcome.value.updatedAt = 1
    /\ RowOf(contacts, answer.req.id).created_at = 0
    /\ RowOf(contacts, answer.req.id).updated_at = 1

ContentFields == {"firstName", "lastName"} \cup OptionalFields

\* C15: a successful update(id, fields) is a full replace. Afterwards the
\* six content fields of contact id equal the payload's, with null for every
\* optional field that is absent, null or empty in the payload; its id and
\* createdAt are as before; every other stored contact is unchanged; the
\* contact returned is the row as written. When id is not stored,
\* repository.update returns null without throwing and changes nothing.
C15_UpdateIsFullReplace ==
    [][RepositoryStep("update") =>
          LET id      == answer'.req.id
              payload == answer'.req.body
          IN  IF id \in IdsOf(contacts)
              THEN LET before == RowOf(contacts, id)
                       after  == RowOf(contacts', id)
                   IN  /\ IdsOf(contacts') = IdsOf(contacts)
                       /\ mapRowToContact(after).firstName = payload.firstName
                       /\ mapRowToContact(after).lastName = payload.lastName
                       /\ \A f \in OptionalFields :
                             mapRowToContact(after)[f] =
                                 IF Blank(payload[f]) THEN Null ELSE payload[f]
                       /\ after.created_at = before.created_at
                       /\ {row \in contacts' : row.id # id} = {row \in contacts : row.id # id}
                       /\ answer'.outcome.kind = "return"
                       /\ answer'.req.trace = << [call |-> "update", result |-> "value"] >>
                       /\ answer'.outcome.value = mapRowToContact(after)
              ELSE /\ answer'.outcome.kind = "return"
                   /\ answer'.req.trace = << [call |-> "update", result |-> "null"] >>
                   /\ contacts' = contacts]_vars

\* contact 1 replaced at time 1 by {firstName: 'John', lastName: 'Doe'}
\* alone while contact 2, stored with all its fields, stays as created
C15_Witness ==
    /\ Returned("update")
    /\ answer.req.id = 1
    /\ answer.req.body = Body(Str(John), Str(Doe), Undefined, Undefined, Undefined, Undefined)
    /\ \A f \in OptionalFields : answer.outcome.value[f] = Null
    /\ answer.outcome.value.createdAt = 0
    /\ answer.outcome.value.updatedAt = 1
    /\ \E row \in contacts :
          /\ row.id = 2
          /\ row.email = Str(EmailGood)
          /\ row.notes = Str(NotesText)
          /\ row.updated_at = 0

----------------------------------------------------------------------------
(* Properties of the validation                                            *)

\* the function has been applied to probe
Applied(fn) == verdict.fn = fn

LengthBound(f) ==
    CASE f \in {"firstName", "lastName"} -> 50
      [] f = "company" -> 100
      [] f = "notes" -> 500

LengthViolation(f) ==
    Violation(f, CASE f = "firstName" -> "First name must not exceed 50 characters"
                   [] f = "lastName"  -> "Last name must not exceed 50 characters"
                   [] f = "company"   -> "Company must not exceed 100 characters"
                   [] f = "notes"     -> "Notes must not exceed 500 characters")

\* a string the length rule of field f is applied to: not blank for a name,
\* not empty for company and notes
Measured(f, v) ==
    /\ v.t = "string"
    /\ IF f \in {"firstName", "lastName"}
       THEN \E i \in 1..Len(v.s) : v.s[i] \notin Whitespace
       ELSE Len(v.s) > 0

\* C16: length bounds are inclusive, in the middleware and in the service.
\* For firstName, lastName, company and notes (bounds 50, 50, 100, 500) a
\* string value gets the length violation of its field exactly when its
\* length exceeds the bound, and no other violation; with all other fields
\* valid the payload is accepted exactly when the length is within the
\* bound, so 50 / 100 / 500 pass and 51 / 101 / 501 are rejected.
C16_LengthBoundsInclusive ==
    Applied("validateContact") \/ Applied("validateContactData") =>
        \A f \in {"firstName", "lastName", "company", "notes"} :
            LET v      == probe.body[f]
                broken == IF Applied("validateContact") THEN RouteBroken(probe.body)
                          ELSE ServiceBroken(probe.body)
            IN  Measured(f, v) =>
                  /\ (\E i \in DOMAIN verdict.errors : verdict.errors[i] = LengthViolation(f))
                        <=> Len(v.s) > LengthBound(f)
                  /\ \A i \in DOMAIN verdict.errors :
                        verdict.errors[i].field = f => verdict.errors[i] = LengthViolation(f)
                  /\ broken \ {f} = {} =>
                        (verdict.errors = << >> <=> Len(v.s) <= LengthBound(f))

\* a company of exactly 100 characters passes the middleware
C16_Witness ==
    /\ Applied("validateContact")
    /\ probe.body = [ValidBase EXCEPT !.company = Str(Repeat("x", 100))]
    /\ verdict.errors = << >>
    /\ verdict.next

\* position of a field in the order the rules are declared in
FieldIndex(f) ==
    CASE f = "firstName" -> 1 [] f = "lastName" -> 2 [] f = "email" -> 3
      [] f = "phone" -> 4 [] f = "company" -> 5 [] f = "notes" -> 6

Without(body, f) == [body EXCEPT ![f] = Undefined]

\* C18: for each optional field the values absent, null and empty string
\* are interchangeable: neither the middleware nor the service reports a
\* violation for a field holding one of them, each of them gives the same
\* list of violations as the payload without the field, and create and
\* update bind null for the field in all three cases.
C18_BlankOptionalFieldsInterchangeable ==
    \A f \in OptionalFields :
        Blank(probe.body[f]) =>
            /\ Applied("validateContact") =>
                  /\ f \notin FieldsOf(verdict.errors)
                  /\ verdict.errors = validateContact(Without(probe.body, f))
            /\ Applied("validateContactData") =>
                  /\ f \notin FieldsOf(verdict.errors)
                  /\ verdict.errors = validateContactData(Without(probe.body, f))
            /\ Applied("params") =>
                  /\ verdict.params[FieldIndex(f)] = Null
                  /\ verdict.params = StatementParams(Without(probe.body, f))

\* {firstName: 'John', lastName: 'Doe', email: '', phone: null, company: '',
\*  notes: null} is bound as John, Doe and four nulls
C18_Witness ==
    /\ Applied("params")
    /\ probe.body = Body(Str(John), Str(Doe), Str(<< >>), Null, Str(<< >>), Null)
    /\ verdict.params = << Str(John), Str(Doe), Null, Null, Null, Null >>

FieldLabel(f) ==
    CASE f = "firstName" -> "First name" [] f = "lastName" -> "Last name"
      [] f = "email" -> "Email" [] f = "phone" -> "Phone"
      [] f = "company" -> "Company" [] f = "notes" -> "Notes"

TypeViolation(f) == Violation(f, FieldLabel(f) \o " must be a string")

\* C19: for every field holding a value that is not a string (0, 123, false,
\* true, an object, an array) the validation, in the middleware and in the
\* service, reports for that field the violation '<Field> must be a string'
\* and no other.
C19_NonStringIsTypeError ==
    Applied("validateContact") \/ Applied("validateContactData") =>
        \A f \in ContentFields :
            probe.body[f] \in NonStrings =>
                /\ \E i \in DOMAIN verdict.errors : verdict.errors[i] = TypeViolation(f)
                /\ \A i \in DOMAIN verdict.errors :
                      verdict.errors[i].field = f => verdict.errors[i] = TypeViolation(f)

\* C20: validateId calls next() exactly when the :id text is the canonical
\* decimal text of a positive integer; every other text is answered 400
\* with body {error: 'Validation failed', details: [{field: 'id', message:
\* 'ID must be a positive integer'}]}, 'ID parameter is required' when the
\* text is empty, and nothing further runs for the request.
C20_ValidateIdAcceptsCanonicalIntegers ==
    Applied("validateId") =>
        /\ verdict.next <=> WellFormedId(probe.idText)
        /\ verdict.next => verdict.response = NoResponse
        /\ ~verdict.next =>
              verdict.response =
                  [status |-> 400,
                   body |-> [error |-> MsgValidationFailed,
                             details |-> << Violation("id",
                                 IF probe.idText = << >> THEN "ID parameter is required"
                                 ELSE "ID must be a positive integer") >>]]


\* characters the documentation of isValidPhone allows
PhoneCharacters == Digits \cup {" ", "+", "-", "(", ")"}

\* C21: isValidPhone(s) returns true exactly when every character of the
\* string s is a digit, a space, '+', '-', '(' or ')' and s holds at least
\* 10 digits, and false for every other string.
C21_IsValidPhoneCharacterisation ==
    Applied("isValidPhone") =>
        LET s == probe.body.phone.s
        IN  verdict.result <=>
              /\ \A i \in 1..Len(s) : s[i] \in PhoneCharacters
              /\ Cardinality({i \in 1..Len(s) : s[i] \in Digits}) >= 10


----------------------------------------------------------------------------
(* Properties of concurrent requests on one contact                        *)

\* the content fields of a stored row, as the API returns them
ContentOf(row) == [f \in ContentFields |-> mapRowToContact(row)[f]]

\* the content a payload is stored as
StoredAs(payload) ==
    [f \in ContentFields |->
        IF f \in OptionalFields /\ Blank(payload[f]) THEN Null ELSE payload[f]]

\* C22: last write wins. Whenever the UPDATE statement of a PUT for a
\* stored id executes and the PUT is answered 200, the six content fields
\* of the row afterwards are those of that request's payload, none of them
\* from another payload, the response body is the row as that statement
\* wrote it, and no other row changes; and the content of a stored row
\* changes in no other step, so that after two concurrent PUTs the row
\* holds the payload of the UPDATE that executed last.
C22_LastWriteWins ==
    [][/\ \A p \in Slots :
             /\ Executes(p, "update")
             /\ reqs[p].id \in IdsOf(contacts)
             /\ answer'.response.status = 200
             => LET after == RowOf(contacts', reqs[p].id)
                IN  /\ IdsOf(contacts') = IdsOf(contacts)
                    /\ ContentOf(after) = StoredAs(reqs[p].body)
                    /\ answer'.slot = p
                    /\ answer'.response.body = mapRowToContact(after)
                    /\ {row \in contacts' : row.id # reqs[p].id}
                           = {row \in contacts : row.id # reqs[p].id}
       /\ \A id \in IdsOf(contacts) \cap IdsOf(contacts') :
             ContentOf(RowOf(contacts', id)) # ContentOf(RowOf(contacts, id)) =>
                \E p \in Slots :
                    /\ Executes(p, "update")
                    /\ reqs[p].id = id
                    /\ answer'.response.status = 200]_vars

\* two PUTs for contact 1 with different payloads were both waiting on
\* their UPDATE; the one of slot 2 has executed and been answered 200 while
\* the one of slot 1 is still to execute
C22_Witness ==
    /\ answer.slot = 2
    /\ answer.req.op = "update"
    /\ answer.req.id = 1
    /\ answer.response.status = 200
    /\ reqs[1].pc = "update"
    /\ reqs[1].id = 1
    /\ reqs[1].body # answer.req.body
    /\ 1 \in IdsOf(contacts)
    /\ ContentOf(RowOf(contacts, 1)) = StoredAs(answer.req.body)
    /\ ContentOf(RowOf(contacts, 1)) # StoredAs(reqs[1].body)
    /\ answer.response.body = mapRowToContact(RowOf(contacts, 1))


\* C24: a DELETE is answered 204 only if its own DELETE statement removed
\* a row: the row is stored when the statement of a request answered 204
\* executes, and no earlier DELETE for that id has been answered 204, so of
\* the concurrent DELETE requests for one stored id exactly one gets 204.
C24_DeleteAnswered204OnlyIfRemoved ==
    [][\A p \in Slots :
          Executes(p, "delete") /\ answer'.response.status = 204 =>
              /\ reqs[p].id \in IdsOf(contacts)
              /\ reqs[p].id \notin IdsOf(contacts')
              /\ reqs[p].id \notin deleted]_vars

\* C25: a PUT is answered 200 only with the updated contact as body: the
\* UPDATE statement of a PUT answered 200 returned a row, and the body is
\* that row as stored; a PUT whose contact was deleted after its existence
\* check is answered 404.
C25_PutAnswered200OnlyWithContact ==
    /\ answer.slot # 0
    /\ answer.req.via = "http"
    /\ answer.req.op = "update"
    => LET trace == answer.req.trace
       IN  /\ answer.response.status = 200 =>
                 /\ trace[Len(trace)] = [call |-> "update", result |-> "value"]
                 /\ \E row \in contacts : answer.response.body = mapRowToContact(row)
           /\ Len(trace) > 0 /\ trace[Len(trace)].result = "null" =>
                 answer.response.status = 404


----------------------------------------------------------------------------
(* Properties of ContactForm                                               *)

\* handleSubmit awaits createContact or updateContact
Submitting == form.call.fn \in {"createContact", "updateContact"}

\* the awaited call of handleSubmit settles in this step
SubmitSettled == Submitting /\ form'.call.fn = ""

\* the backend validation, of the route and of the service, accepts the payload
BackendAccepts(payload) ==
    Len(validateContact(payload)) = 0 /\ Len(validateContactData(payload)) = 0

\* C23: the validation of ContactForm applies the rules of the backend.
\* Every payload handleSubmit sends, validateForm having accepted the form,
\* is accepted by validateContact and by the validation of the service; and
\* whenever the backend would reject the payload of the form as filled in,
\* validateForm rejects the form.
C23_FormRulesMatchBackend ==
    /\ Submitting => BackendAccepts(form.call.data)
    /\ ~form.fetchingData /\ ~BackendAccepts(ContactData(form.formData)) =>
           \E f \in FormFields : FormErrors(form.formData)[f] # ""

\* C28: when the API rejects the submission with status 400 and a details
\* list, the value caught being the ApiError of transformError, the form
\* shows each detail's message on the field the detail names and sets no
\* general submit error.
C28_BackendDetailsShownInline ==
    [][/\ SubmitSettled
       /\ form'.settled.rejected
       /\ form'.settled.status = 400
       /\ form'.settled.hasDetails
       => /\ \A i \in DOMAIN form'.settled.details :
                form'.errors[form'.settled.details[i].field]
                    = form'.settled.details[i].message
          /\ form'.submitError = << >>]_vars

\* C29: createContact (without contactId) or updateContact (with it) is
\* awaited only for a submission validateForm found no error in, with the
\* payload built from the form; loading is true exactly while that call is
\* in flight; onSave is called only when the call resolved with a contact,
\* then exactly once and with that contact's id, so never for a submission
\* that failed validation or whose call was rejected.
C29_SubmitCallsApiThenOnSaveOnce ==
    /\ [](/\ Submitting =>
                /\ \A f \in FormFields :
                      form.errors[f] = "" /\ FormErrors(form.formData)[f] = ""
                /\ form.call.fn = IF form.contactId # 0 THEN "updateContact"
                                  ELSE "createContact"
                /\ form.call.id = form.contactId
                /\ form.call.data = ContactData(form.formData)
          /\ form.loading <=> Submitting)
    /\ [][/\ SubmitSettled =>
                /\ ~form'.loading
                /\ IF form'.settled.hasId /\ ~form'.settled.rejected
                   THEN /\ form'.onSave = Append(form.onSave, form'.settled.id)
                        /\ form.contactId # 0 => form'.settled.id = form.contactId
                   ELSE form'.onSave = form.onSave
          /\ ~SubmitSettled => form'.onSave = form.onSave
          /\ /\ ~Submitting
             /\ form'.submits # form.submits
             /\ \E f \in FormFields : FormErrors(form.formData)[f] # ""
             => /\ form'.call.fn = ""
                /\ ~form'.loading
                /\ form'.errors = FormErrors(form.formData)]_vars

\* a second submission, in edit mode, was saved after the first was
\* rejected by the API: onSave has been called once, with the contact's id
C29_Witness ==
    /\ form.contactId = 1
    /\ form.submits = 2
    /\ form.onSave = << 1 >>
    /\ form.settled.fn = "updateContact"
    /\ form.settled.hasId
    /\ ~form.loading
    /\ form.submitError = << >>


----------------------------------------------------------------------------
(* Properties of ContactDetail                                             *)

\* handleDelete awaits deleteContact
Deleting == detail.call = "deleteContact"

\* C30: deleteContact is called only from the open confirmation dialog of
\* the displayed contact; deleting is true exactly while the call is in
\* flight; when the call succeeds the view navigates to '/'; when it fails
\* the dialog is closed, the error's message is shown, the contact stays
\* displayed and nothing navigates.
C30_DeleteOnlyAfterConfirmation ==
    /\ [](/\ detail.deleting <=> Deleting
          /\ Deleting => detail.showDeleteConfirm /\ detail.hasContact)
    /\ [][/\ detail'.deletes # detail.deletes =>
                /\ detail.showDeleteConfirm
                /\ detail.hasContact
                /\ ~detail.loading
                /\ ~Deleting
                /\ detail'.call = "deleteContact"
          /\ ~Deleting /\ detail'.call = "deleteContact" =>
                detail'.deletes = detail.deletes + 1
          /\ Deleting /\ detail'.call = "" =>
                /\ ~detail'.deleting
                /\ detail'.hasContact
                /\ IF detail'.settled.rejected
                   THEN /\ ~detail'.showDeleteConfirm
                        /\ detail'.error = detail'.settled.message
                        /\ Len(detail'.error) > 0
                        /\ detail'.navigate = detail.navigate
                   ELSE detail'.navigate = Append(detail.navigate, "/")]_vars

\* the first delete was rejected and its error shown; the dialog was opened
\* again, and the second delete succeeded and navigated to '/'
C30_Witness ==
    /\ detail.deletes = 2
    /\ detail.settled.fn = "deleteContact"
    /\ ~detail.settled.rejected
    /\ detail.navigate = << "/" >>
    /\ ~detail.deleting
    /\ detail.error = << >>


----------------------------------------------------------------------------
(* Properties of the server process                                        *)

\* gracefulShutdown is called in this step
ShutdownCalled == server'.shutdowns # server.shutdowns

\* C26: gracefulShutdown with a running server closes the pool only after
\* the close of the HTTP server has completed, and the process exits once:
\* with code 0 when closeDatabase resolved, with code 1 when closeDatabase
\* rejected or when the 10 seconds of the timer have passed first; called
\* without a server it exits with code 0 in the same step.
C26_GracefulShutdownOrder ==
    /\ [](/\ Len(server.exit) <= 1
          /\ server.pool # "open" \/ server.closing > 0 =>
                /\ server.httpClosed
                /\ server.connections = 0
                /\ ~server.listening
                /\ server.shutdowns > 0
          /\ server.pool = "ended" => server.exit = << 0 >>
          /\ server.pool = "failed" => server.exit = << 1 >>
          /\ server.exit = << 0 >> =>
                \/ server.pool = "ended"
                \/ ~server.server /\ server.shutdowns > 0 /\ server.pool = "open"
          /\ server.elapsed <= ShutdownTimeout
          /\ server.elapsed > 0 => server.timer /\ server.shutdowns > 0)
    /\ [][/\ ~Alive => server' = server
          /\ ShutdownCalled /\ ~server.server => server'.exit = << 0 >>
          /\ ShutdownCalled /\ server.server =>
                /\ server'.exit = << >>
                /\ server'.timer
                /\ ~server'.listening
                /\ server'.pool = server.pool
          /\ server.closing > 0 /\ server'.pool = "ended" => server'.exit = << 0 >>
          /\ server.closing > 0 /\ server'.pool = "failed" => server'.exit = << 1 >>
          /\ server.database = "connected" /\ server'.exit = << 1 >> =>
                \/ server.closing > 0 /\ server'.pool = "failed"
                \/ server.timer /\ server.elapsed = ShutdownTimeout]_vars

\* a shutdown that waited three seconds for the last connection to end,
\* then closed the pool and exited with code 0
C26_Witness ==
    /\ server.exit = << 0 >>
    /\ server.pool = "ended"
    /\ server.httpClosed
    /\ server.shutdowns = 1
    /\ server.elapsed = 3

\* C27: startServer starts listening only after initializeDatabase has
\* succeeded; when initializeDatabase fails the process exits with code 1
\* and the server never listens.
C27_ListensOnlyAfterDatabase ==
    /\ [](/\ server.listening \/ server.server \/ server.connections > 0 =>
                server.database = "connected"
          /\ server.database = "failed" =>
                /\ server.exit = << 1 >>
                /\ ~server.server
                /\ ~server.listening)
    /\ [][/\ server'.listening /\ ~server.listening =>
                server.database = "connecting" /\ server'.database = "connected"
          /\ server.database = "connecting" /\ server'.database = "failed" =>
                server'.exit = << 1 >>
          /\ server.database = "failed" => server' = server]_vars

\* initializeDatabase has failed: the process has exited with code 1
\* without a server
C27_Witness ==
    /\ server.database = "failed"
    /\ server.exit = << 1 >>
    /\ ~server.server
    /\ ~server.listening
    /\ server.shutdowns = 0

====
